---- MODULE Spec2Model ----
(***************************************************************************)
(* BulkDB-CLI: the dependency resolver (core/validators.py), the batch     *)
(* population engine (core/populator.py) and the value generation engine   *)
(* (core/data_generator.py), as one single-threaded state machine.  The    *)
(* program is synchronous: `pc` is the position of the one thread of       *)
(* control, "idle" being the main menu loop between two operations.        *)
(***************************************************************************)
EXTENDS Integers, Naturals, Sequences, FiniteSets, TLC

\* ---------------------------------------------------------------- bounds
\* most foreign keys one table has in the catalog
MaxFks == 2

\* every random draw ranges over 1..RandSpan
RandSpan == 2

\* the attempt ceiling of _ensure_uniqueness
MaxAttempts == 100

\* most values the uniqueness tracker holds
MaxTracked == 2

\* largest count generate_unique_values is asked for
MaxCount == 2

\* largest value a sequence counter reaches
MaxSequence == 2

\* most records one populate_table call is asked for
MaxRecords == 5

\* largest batch size one populate_table call is given
MaxBatch == 3

\* the count handed to generate_relationship_data
PoolCount == 2

\* _generate_recommendation reports fewer distinct values than this
FewValues == 10

\* most queries that fail on an open transaction between two visits of the menu
MaxFailures == 1

\* nested calls of switch_to_priority_table
MaxDepth == 2

\* the tables the catalog can name
Tables == {"orders", "customers", "regions"}

\* ------------------------------------------------------- generic helpers
Range(s) == {s[i] : i \in DOMAIN s}

Reverse(s) == [i \in 1..Len(s) |-> s[Len(s) + 1 - i]]

\* sequences over S of length n without repetition
RECURSIVE InjSeqs(_, _)
InjSeqs(S, n) ==
    IF n = 0 THEN {<<>>}
    ELSE UNION {{Append(q, x) : x \in S \ Range(q)} : q \in InjSeqs(S, n - 1)}

\* position of the first occurrence of x in s, 0 when absent
IndexOf(s, x) ==
    IF x \in Range(s) THEN CHOOSE i \in DOMAIN s : s[i] = x /\ \A j \in 1..(i - 1) : s[j] # x
    ELSE 0

\* ------------------------------------------------- dependency resolver
\* the foreign-key lists _get_foreign_keys can return for one table
FkLists == UNION {InjSeqs(Tables, n) : n \in 0..MaxFks}

\* the graphs _build_dependency_graph can return: one list per catalogued table
Graphs == UNION {[S -> FkLists] : S \in SUBSET Tables}

\* graph.get(table, [])
GraphGet(g, t) == IF t \in DOMAIN g THEN g[t] ELSE <<>>

VARIABLES
    pc,         \* position of the thread of control
    graph,      \* dependency_graph of get_population_priority
    start,      \* table_name of get_population_priority
    visited,    \* visited of _topological_sort
    result,     \* result of _topological_sort (post-order while the dfs runs)
    stack,      \* call stack of dfs: frames [t |-> table, i |-> next dependency]
    order,      \* what _topological_sort returned: result[::-1]
    isEmpty,    \* what _is_table_empty answered for each table
    priority,   \* what get_population_priority returned
    catalog_failed,     \* a catalog query of get_population_priority raised psycopg2.Error
    master_dataset,         \* DataGenerator.master_dataset: "full", "partial" or "empty"
    unique_value_tracker,   \* DataGenerator.unique_value_tracker, per column name
    sequence_counters,      \* DataGenerator.sequence_counters, per column name
    gv_args,    \* arguments of the running generate_value / generate_unique_values
    gv_result,  \* what generate_value returned or raised
    values,     \* values of generate_unique_values
    guv_result, \* what generate_unique_values returned or raised
    emitted,    \* the <<table, column, value>> of the values returned to is_unique
                \* calls since the tracker was last cleared
    col,            \* the selected column of the table being populated, as the catalog has it
    column_config,  \* DatabasePopulator.column_configs[col_name], NoConfig when absent
    column_data,    \* column_data[col_name] of populate_table
    record_count,   \* record_count of populate_table
    batch_size,     \* batch_size of populate_table
    batches,        \* batches of _generate_data_in_batches
    records_generated,  \* records_generated of _generate_data_in_batches
    batch_index,    \* position of the insertion loop of populate_table in batches
    success_count,  \* success_count of populate_table
    error_count,    \* error_count of populate_table
    record_index,   \* position of _insert_records_individually in the batch
    individual_success, \* success_count of _insert_records_individually
    individual_errors,  \* error_count of _insert_records_individually
    row_outcomes,   \* what the store answered to each individual insert of the batch
    batch_results,  \* what _insert_batch returned for each batch so far
    table_rows,     \* committed rows of the populated table (the selected column)
    uncommitted,    \* rows written by the open transaction and not yet committed
    connection,     \* DatabaseManager.connection: "open", "aborted" while its
                    \* transaction has failed and was not rolled back, or "lost"
    catalog,        \* the foreign-key edges of the analysed table and their targets
    basic_relationships,    \* basic_relationships of analyze_advanced_relationships
    advanced_info,  \* advanced_info of analyze_advanced_relationships: its values
    query_log,      \* what the queries of the call answered and how far its loop is
    previous_info,  \* what the previous call returned for the same catalog
    query_failures, \* the queries that failed on an open transaction
    schema,         \* the database of the CLI session: foreign keys and empty tables
    frames,         \* the calls of the CLI flow that wait for a call to return
    call,           \* the arguments and locals of the running call of the CLI flow
    returned        \* what the last call of the CLI flow returned

resolverVars == <<graph, start, visited, result, stack, order, isEmpty, priority,
                  catalog_failed>>

generatorVars == <<master_dataset, unique_value_tracker, sequence_counters,
                   gv_args, gv_result, values, guv_result, emitted>>

populatorVars == <<col, column_config, column_data, record_count, batch_size, batches,
                   records_generated, batch_index, success_count, error_count,
                   record_index, individual_success, individual_errors, row_outcomes,
                   batch_results, table_rows, uncommitted>>

analyzerVars == <<catalog, basic_relationships, advanced_info, query_log, previous_info,
                  query_failures>>

flowVars == <<schema, frames, call, returned>>

vars == <<pc, resolverVars, generatorVars, populatorVars, analyzerVars, flowVars,
          connection>>

NoTable == "none"

resolverIdle ==
    /\ graph = <<>>
    /\ start = NoTable
    /\ visited = {}
    /\ result = <<>>
    /\ stack = <<>>
    /\ order = <<>>
    /\ isEmpty = [t \in Tables |-> FALSE]
    /\ priority = <<>>
    /\ catalog_failed = FALSE

\* ----------------------------------------------- value generation engine
\* Python values: None, bool, int, float, date-like objects (date, datetime,
\* timedelta), dict and str; a str is its sequence of characters
NoneV == [k |-> "none", v |-> 0, s |-> <<>>]
BoolV(n) == [k |-> "bool", v |-> n, s |-> <<>>]
IntV(n) == [k |-> "int", v |-> n, s |-> <<>>]
FloatV(n) == [k |-> "float", v |-> n, s |-> <<>>]
DateV(n) == [k |-> "date", v |-> n, s |-> <<>>]
DictV(n) == [k |-> "dict", v |-> n, s |-> <<>>]
StrV(chars) == [k |-> "str", v |-> 0, s |-> chars]

\* an exception that leaves the call instead of a value
TypeErrorV == [k |-> "TypeError", v |-> 0, s |-> <<>>]

Digit(n) == <<"0", "1", "2", "3", "4", "5", "6", "7", "8", "9">>[(n % 10) + 1]

\* bool(value)
Truthy(x) ==
    /\ x.k # "none"
    /\ ~(x.k \in {"bool", "int", "float"} /\ x.v = 0)
    /\ ~(x.k = "str" /\ x.s = <<>>)

\* str(value)
PyStr(x) ==
    IF x.k = "str" THEN x
    ELSE StrV(<<CASE x.k = "none" -> "N" [] x.k = "bool" -> "B" [] x.k = "int" -> "I"
                  [] x.k = "float" -> "F" [] x.k = "date" -> "D" [] OTHER -> "J",
                Digit(x.v)>>)

\* a == b for two Python values: True == 1 and False == 0
PyEq(a, b) ==
    \/ a = b
    \/ a.k \in {"bool", "int"} /\ b.k \in {"bool", "int"} /\ a.v = b.v

\* value in set, set.add(value)
PyIn(x, S) == \E w \in S : PyEq(x, w)

PyAdd(S, x) == IF PyIn(x, S) THEN S ELSE S \cup {x}

\* the column names of the model and the words the code looks for in them
ColumnNames == {"qty", "first_name", "full_name", "email", "city", "status",
                "code_date", "price"}

NameWords(name) ==
    CASE name = "first_name" -> {"name", "first"}
      [] name = "full_name" -> {"name"}
      [] name = "email" -> {"email"}
      [] name = "city" -> {"city"}
      [] name = "status" -> {"status"}
      [] name = "code_date" -> {"code", "date"}
      [] name = "price" -> {"price"}
      [] OTHER -> {}

\* any(word in column_lower for word in words)
NameHas(name, words) == NameWords(name) \cap words # {}

\* the declared types of the model and the words the code looks for in them
DataTypes == {"integer", "boolean", "timestamp without time zone", "date",
              "time without time zone", "character varying", "text", "numeric",
              "real", "uuid", "json", "bytea"}

TypeWords(dt) ==
    CASE dt = "integer" -> {"integer", "int"}
      [] dt = "boolean" -> {"boolean", "bool"}
      [] dt = "timestamp without time zone" -> {"timestamp", "time"}
      [] dt = "date" -> {"date"}
      [] dt = "time without time zone" -> {"time"}
      [] dt = "character varying" -> {"character varying"}
      [] dt = "text" -> {"text"}
      [] dt = "numeric" -> {"numeric"}
      [] dt = "real" -> {"real"}
      [] dt = "uuid" -> {"uuid"}
      [] dt = "json" -> {"json"}
      [] OTHER -> {}

TypeHas(dt, words) == TypeWords(dt) \cap words # {}

\* the outcomes of one random draw of each synthesizer
Rand == 1..RandSpan

Tagged(c) == {StrV(<<c, Digit(i)>>) : i \in Rand}

GetRandomValue(ds) ==
    CASE ds = "full" -> Tagged("v")
      [] ds = "empty" -> {NoneV}
      [] OTHER -> Tagged("v") \cup {NoneV}

GenerateEmail == {StrV(<<"u", Digit(i), "@", "d">>) : i \in Rand}

GeneratePhone == {StrV(<<"+", Digit(i), Digit(i)>>) : i \in Rand}

GenerateAddress == {StrV(<<Digit(i), " ", "M", "a", "i", "n">>) : i \in Rand}

GenerateDate == {DateV(i) : i \in Rand}

GenerateRealisticPrice == {FloatV(i) : i \in Rand}

GenerateCode == Tagged("C")

GetRandomCompany == Tagged("c")

GetRandomProduct == Tagged("p")

GetRandomAnimalBreed == Tagged("b")

GeneratePersonalName(name, ds) ==
    IF NameHas(name, {"first", "nombre"}) THEN GetRandomValue(ds)
    ELSE IF NameHas(name, {"last", "apellido"}) THEN GetRandomValue(ds)
    ELSE {StrV(PyStr(f).s \o <<" ">> \o PyStr(l).s) :
              f \in GetRandomValue(ds), l \in GetRandomValue(ds)}

\* column_name.upper(), one character standing for each name
NameTag(name) ==
    CASE name = "first_name" -> "F" [] name = "full_name" -> "N" [] name = "email" -> "E"
      [] name = "city" -> "Y" [] name = "status" -> "S" [] name = "code_date" -> "K"
      [] name = "price" -> "P" [] OTHER -> "Q"

GenerateSequentialCode(name, counter) == StrV(<<NameTag(name), "-", Digit(counter + 1)>>)

\* _generate_from_hint
GenerateFromHint(hint, name, ds, counter) ==
    CASE hint = "personal_names" ->
             {IF Truthy(a) THEN a ELSE b : a \in GetRandomValue(ds), b \in GetRandomValue(ds)}
      [] hint \in {"email"} -> GenerateEmail
      [] hint = "phone" -> GeneratePhone
      [] hint \in {"date_age_based", "timestamp_recent"} -> GenerateDate
      [] hint = "products_services" -> GetRandomProduct
      [] hint \in {"product_description", "animal_names", "job_titles", "departments",
                   "order_status"} -> GetRandomValue(ds)
      [] hint = "price_realistic" -> GenerateRealisticPrice
      [] hint = "animal_breeds" -> GetRandomAnimalBreed
      [] hint = "companies" -> GetRandomCompany
      [] hint = "address_business" ->
             {StrV(c.s \o <<",">> \o PyStr(t).s) : c \in GetRandomCompany, t \in GetRandomValue(ds)}
      [] hint = "code_sequential" -> {GenerateSequentialCode(name, counter)}
      [] hint = "email_business" -> {StrV(<<"i", "@">> \o c.s) : c \in GetRandomCompany}
      [] OTHER -> {NoneV}

\* _generate_from_table_context: hint is what the dataset's table hints hold for
\* this table and column, "nohint" when nothing is found or no table is named
GenerateFromTableContext(hint, name, ds, counter) ==
    IF hint = "nohint" THEN {NoneV} ELSE GenerateFromHint(hint, name, ds, counter)

\* the chain of _generate_from_column_name with its test for dates moved
\* to the end
GenerateFromColumnNameDateLast(name, ds) ==
    IF NameHas(name, {"name", "nombre"}) THEN GeneratePersonalName(name, ds)
    ELSE IF NameHas(name, {"email"}) THEN GenerateEmail
    ELSE IF NameHas(name, {"phone", "tel", "telefono"}) THEN GeneratePhone
    ELSE IF NameHas(name, {"address", "direccion"}) THEN GenerateAddress
    ELSE IF NameHas(name, {"city", "ciudad"}) THEN GetRandomValue(ds)
    ELSE IF NameHas(name, {"province", "provincia"}) THEN GetRandomValue(ds)
    ELSE IF NameHas(name, {"country", "pais"}) THEN GetRandomValue(ds)
    ELSE IF NameHas(name, {"company", "empresa"}) THEN GetRandomCompany
    ELSE IF NameHas(name, {"product", "producto"}) THEN GetRandomProduct
    ELSE IF NameHas(name, {"description", "descripcion"}) THEN GetRandomValue(ds)
    ELSE IF NameHas(name, {"code", "codigo"}) THEN GenerateCode
    ELSE IF NameHas(name, {"price", "precio", "cost", "costo"}) THEN GenerateRealisticPrice
    ELSE IF NameHas(name, {"status", "estado"}) THEN GetRandomValue(ds)
    ELSE IF NameHas(name, {"date", "fecha"}) THEN GenerateDate
    ELSE {NoneV}

\* _generate_from_column_name
GenerateFromColumnName(name, ds) ==
    IF NameHas(name, {"name", "nombre"}) THEN GeneratePersonalName(name, ds)
    ELSE IF NameHas(name, {"email"}) THEN GenerateEmail
    ELSE IF NameHas(name, {"phone", "tel", "telefono"}) THEN GeneratePhone
    ELSE IF NameHas(name, {"address", "direccion"}) THEN GenerateAddress
    ELSE IF NameHas(name, {"date", "fecha"}) THEN GenerateDate
    ELSE IF NameHas(name, {"city", "ciudad"}) THEN GetRandomValue(ds)
    ELSE IF NameHas(name, {"province", "provincia"}) THEN GetRandomValue(ds)
    ELSE IF NameHas(name, {"country", "pais"}) THEN GetRandomValue(ds)
    ELSE IF NameHas(name, {"company", "empresa"}) THEN GetRandomCompany
    ELSE IF NameHas(name, {"product", "producto"}) THEN GetRandomProduct
    ELSE IF NameHas(name, {"description", "descripcion"}) THEN GetRandomValue(ds)
    ELSE IF NameHas(name, {"code", "codigo"}) THEN GenerateCode
    ELSE IF NameHas(name, {"price", "precio", "cost", "costo"}) THEN GenerateRealisticPrice
    ELSE IF NameHas(name, {"status", "estado"}) THEN GetRandomValue(ds)
    ELSE {NoneV}

\* value[:max_length] when max_length is set (0 stands for None) and exceeded
Truncate(x, max_length) ==
    IF max_length # 0 /\ Len(x.s) > max_length THEN StrV(SubSeq(x.s, 1, max_length)) ELSE x

\* the text a failed name inference falls back to
TextValue == Tagged("t")

\* _generate_smart_text without its text_value fallback
GenerateSmartTextNoFallback(name, max_length, ds) ==
    {IF c = NoneV THEN NoneV ELSE Truncate(PyStr(c), max_length) :
        c \in GenerateFromColumnName(name, ds)}

\* _generate_smart_text
GenerateSmartText(name, max_length, ds) ==
    {Truncate(x, max_length) :
        x \in UNION {IF Truthy(c) THEN {PyStr(c)} ELSE TextValue :
                        c \in GenerateFromColumnName(name, ds)}}

\* _generate_by_data_type
GenerateByDataType(dt, name, max_length, ds) ==
    IF TypeHas(dt, {"integer", "int"}) THEN {IntV(i) : i \in Rand}
    ELSE IF TypeHas(dt, {"boolean", "bool"}) THEN {BoolV(1), BoolV(0)}
    ELSE IF TypeHas(dt, {"timestamp"}) THEN GenerateDate
    ELSE IF TypeHas(dt, {"date"}) THEN GenerateDate
    ELSE IF TypeHas(dt, {"time"}) THEN GenerateDate
    ELSE IF TypeHas(dt, {"character varying", "varchar", "text"})
         THEN GenerateSmartText(name, max_length, ds)
    ELSE IF TypeHas(dt, {"numeric", "decimal"}) THEN {FloatV(i) : i \in Rand}
    ELSE IF TypeHas(dt, {"real", "double precision"}) THEN {FloatV(i) : i \in Rand}
    ELSE IF TypeHas(dt, {"uuid"}) THEN Tagged("U")
    ELSE IF TypeHas(dt, {"json", "jsonb"}) THEN {DictV(i) : i \in Rand}
    ELSE Tagged("x")

\* hash(value) raises TypeError for a dict
Hashable(x) == x.k # "dict"

\* one pass of the while loop of _ensure_uniqueness on the candidate x
Perturb(x, original_value) ==
    IF x.k \in {"bool", "int"} THEN {IntV(x.v + r) : r \in Rand}
    ELSE IF x.k = "float" THEN {FloatV(x.v + r) : r \in Rand}
    ELSE {StrV(PyStr(original_value).s \o <<"_", Digit(r)>>) : r \in Rand}

\* the values the loop `while value in tracker and attempts < 100` can end with,
\* cur being the values it can hold after `attempts` passes
RECURSIVE UniquenessLoop(_, _, _, _)
UniquenessLoop(cur, original_value, tracked, attempts) ==
    LET colliding == {x \in cur : PyIn(x, tracked)}
    IN IF attempts >= MaxAttempts \/ colliding = {} THEN cur
       ELSE (cur \ colliding)
            \cup UniquenessLoop(UNION {Perturb(x, original_value) : x \in colliding},
                                original_value, tracked, attempts + 1)

\* _ensure_uniqueness without its loop: the value as it came
EnsureUniquenessUnchecked(x, tracked, is_unique) ==
    IF is_unique /\ ~Hashable(x) THEN {TypeErrorV} ELSE {x}

\* _ensure_uniqueness: the values it can return, TypeErrorV when it raises
EnsureUniqueness(x, tracked, is_unique) ==
    IF ~is_unique THEN {x}
    ELSE IF ~Hashable(x) THEN {TypeErrorV}
    ELSE UniquenessLoop({x}, x, tracked, 0)

\* generate_value: the values it can return, TypeErrorV when it raises
GenerateValue(a, ds, tracked, counter) ==
    UNION {IF c # NoneV THEN EnsureUniqueness(c, tracked, a.is_unique)
           ELSE UNION {IF n # NoneV THEN EnsureUniqueness(n, tracked, a.is_unique)
                       ELSE UNION {EnsureUniqueness(t, tracked, a.is_unique) :
                                      t \in GenerateByDataType(a.data_type, a.column_name,
                                                                a.max_length, ds)} :
                          n \in GenerateFromColumnName(a.column_name, ds)} :
              c \in GenerateFromTableContext(a.hint, a.column_name, ds, counter)}

NoArgs == [data_type |-> "", column_name |-> "", max_length |-> 0, hint |-> "nohint",
           is_unique |-> FALSE, count |-> 0, table_name |-> NoTable]

generatorInit ==
    /\ master_dataset \in {"full", "partial", "empty"}
    /\ unique_value_tracker = [c \in ColumnNames |-> {}]
    /\ sequence_counters = [c \in ColumnNames |-> 0]
    /\ gv_args = NoArgs
    /\ gv_result = NoneV
    /\ values = {}
    /\ guv_result = <<"none", <<>>>>
    /\ emitted = {}

\* ------------------------------------------------ batch population engine
\* column_configs has no entry for the column
NoConfig == [generation_type |-> "none", fixed_value |-> NoneV, start_value |-> 0]

Config(generation_type, fixed_value, start_value) ==
    [generation_type |-> generation_type, fixed_value |-> fixed_value,
     start_value |-> start_value]

\* configure_column_data: what the CLI can store for a column of the data type
ColumnConfigs(dt) ==
    {NoConfig, Config("random", NoneV, 0)}
    \cup (IF TypeHas(dt, {"int"})
          THEN {Config("sequence", NoneV, 1), Config("sequence", NoneV, 5),
                Config("fixed", IntV(7), 0)}
          ELSE IF TypeHas(dt, {"bool"})
          THEN {Config("true", NoneV, 0), Config("false", NoneV, 0)}
          ELSE {Config("fixed", StrV(<<"7">>), 0)})

\* the values the referenced column of a foreign key can hold, none when the
\* referenced table has no rows
Targets == {{}, {IntV(1)}, {IntV(1), IntV(2)}, {IntV(1), NoneV}}

\* one selected column: its catalog row (name, data type, is_nullable,
\* max_length), whether it is a foreign key, to which values and with which
\* cardinality in advanced_relationships, and whether the table has a UNIQUE
\* constraint on it
Column(dt, nullable, fk, target, unique, cardinality) ==
    [column_name |-> "qty", data_type |-> dt, is_nullable |-> nullable, max_length |-> 0,
     is_foreign_key |-> fk, target |-> target, unique |-> unique,
     cardinality |-> cardinality]

\* the cardinalities analyze_advanced_relationships can give the edge to a
\* target column with the values
TargetCardinalities(target) ==
    {"uno_a_muchos"}
    \cup (IF target = {IntV(1)} THEN {"uno_a_uno_exacto"} ELSE {})
    \cup (IF target = {IntV(1), IntV(2)} THEN {"uno_a_uno_potencial"} ELSE {})

Columns ==
    {Column("integer", n, FALSE, {}, u, "") : n \in {"YES", "NO"}, u \in BOOLEAN}
    \cup UNION {{Column("integer", n, TRUE, t, FALSE, c) :
                    n \in {"YES", "NO"}, c \in TargetCardinalities(t)} : t \in Targets}
    \cup {Column("boolean", n, FALSE, {}, FALSE, "") : n \in {"YES", "NO"}}

NoColumn == Column("", "", FALSE, {}, FALSE, "")

NoColumnData == [type |-> "", data_type |-> "", max_length |-> 0, is_nullable |-> "",
                 values |-> {}, config |-> NoConfig]

populatorIdle ==
    /\ col = NoColumn
    /\ column_config = NoConfig
    /\ column_data = NoColumnData
    /\ record_count = 0
    /\ batch_size = 0
    /\ batches = <<>>
    /\ records_generated = 0
    /\ batch_index = 0
    /\ success_count = 0
    /\ error_count = 0
    /\ record_index = 0
    /\ individual_success = 0
    /\ individual_errors = 0
    /\ row_outcomes = <<>>
    /\ batch_results = <<>>
    /\ table_rows = <<>>
    /\ uncommitted = <<>>

\* ------------------------------------------------- relationship analyzer
\* the target column of a foreign key: the constraint it is in, if any, and
\* the values it holds (NoneV for NULL), none when the target table is empty
EdgeTargets ==
    {t \in [constraint : {"none", "unique", "primary_key"}, values : Targets] :
        /\ t.constraint = "primary_key" => NoneV \notin t.values
        /\ t.constraint # "unique" => t.values = {IntV(1)}}

\* SchemaAnalyzer._determine_relationship_type
DetermineRelationshipType == "uno_a_muchos"

\* the columns of the analysed table that foreign keys are on
FkColumns == {"customer_id", "product_id"}

\* a row of the foreign-key query: kcu.column_name and the target column
Edges == [column : FkColumns, foreign : EdgeTargets]

\* the foreign keys of the analysed table; two rows can name the same column,
\* as the rows of a composite key do
Catalogs == {S \in SUBSET Edges : Cardinality(S) <= MaxFks}

NoQueryLog == [relationships |-> "ok", done |-> 0, edges |-> {}]

NoPreviousInfo == [called |-> FALSE, cardinalities |-> {}]

analyzerIdle ==
    /\ catalog = {}
    /\ basic_relationships = <<>>
    /\ advanced_info = {}
    /\ query_log = NoQueryLog
    /\ previous_info = NoPreviousInfo
    /\ query_failures = 0

\* --------------------------------------------------------- the CLI flow
\* the tables of the public schema the user can select
FlowTables == {"orders", "customers"}

\* a table the validator does not find: table_exists looks in schema 'public'
MissingTable == "archive"

\* a row of _get_foreign_keys: the referenced table and column; the column
\* "gone" is not among the columns get_table_columns returns for the table
ForeignKeys ==
    {k \in [foreign_table : FlowTables \cup {MissingTable}, foreign_column : {"id", "gone"}] :
        k.foreign_table = MissingTable => k.foreign_column = "id"}

\* the database the CLI is connected to: the foreign keys of each table, in
\* the order the catalog returns them, and whether the table has no rows
Schemas ==
    [fks : [FlowTables -> UNION {InjSeqs(ForeignKeys, n) : n \in 0..MaxFks}],
     empty : [FlowTables -> BOOLEAN]]

NoSchema == [fks |-> <<>>, empty |-> <<>>]

\* the arguments and locals of the call of analyze_and_confirm or
\* switch_to_priority_table that is running, or of the iteration of main
NoCall == [table |-> NoTable, original |-> NoTable, warnings |-> <<>>,
           empty_related_tables |-> <<>>, priority_order |-> <<>>]

flowIdle ==
    /\ schema = NoSchema
    /\ frames = <<>>
    /\ call = NoCall
    /\ returned = FALSE

Init ==
    /\ pc = "idle"
    /\ resolverIdle
    /\ generatorInit
    /\ populatorIdle
    /\ analyzerIdle
    /\ flowIdle
    /\ connection = "open"

\* the connection is not in autocommit mode and neither the resolver nor
\* the analyzer rolls back: a statement the server fails leaves the transaction aborted, one
\* that fails in the driver leaves it as it was
ConnectionAfter(conn, outcome) == IF outcome = "ok" THEN {conn} ELSE {conn, "aborted"}

\* _get_foreign_keys answers [] for the tables whose query fails
ForeignKeysOf(g, failing) == [t \in DOMAIN g |-> IF t \in failing THEN <<>> ELSE g[t]]

\* _build_dependency_graph on the catalog g: the graph it returns, whether a
\* query failed on the way and the connection after it. _get_all_tables
\* answers [] when its query fails; on an aborted transaction every query fails
BuildDependencyGraph(g, conn) ==
    IF conn # "open" THEN {<<ForeignKeysOf(<<>>, {}), TRUE, conn>>}
    ELSE {<<g, FALSE, conn>>}
         \cup {<<ForeignKeysOf(<<>>, {}), TRUE, c>> : c \in ConnectionAfter(conn, "error")}
         \cup {<<ForeignKeysOf(g, failing), TRUE, c>> :
                 failing \in {F \in SUBSET DOMAIN g : F # {} /\ Cardinality(F) <= MaxFailures},
                 c \in ConnectionAfter(conn, "error")}

\* get_population_priority(table_name): the graph is built from the catalog and
\* _topological_sort makes its first call dfs(start_table)
GetPopulationPriority ==
    /\ pc = "idle"
    /\ \E g \in Graphs, s \in Tables :
        /\ \E built \in BuildDependencyGraph(g, connection) :
            /\ graph' = built[1]
            /\ catalog_failed' = built[2]
            /\ connection' = built[3]
        /\ start' = s
        /\ visited' = {s}
        /\ stack' = <<[t |-> s, i |-> 1]>>
    /\ result' = <<>>
    /\ pc' = "dfs"
    /\ UNCHANGED <<order, isEmpty, priority, generatorVars, flowVars, populatorVars,
                   analyzerVars>>

\* dfs without the test `if table not in visited`
DfsCallBodyRevisits(top, dep) ==
    /\ visited' = visited \cup {dep}
    /\ stack' = Append([stack EXCEPT ![Len(stack)] = [top EXCEPT !.i = top.i + 1]],
                       [t |-> dep, i |-> 1])

\* the loop `for dependency in graph.get(table, [])` makes the call dfs(dependency)
DfsCallBody(top, dep) ==
    IF dep \notin visited
    THEN /\ visited' = visited \cup {dep}
         /\ stack' = Append([stack EXCEPT ![Len(stack)] = [top EXCEPT !.i = top.i + 1]],
                            [t |-> dep, i |-> 1])
    ELSE /\ visited' = visited
         /\ stack' = [stack EXCEPT ![Len(stack)] = [top EXCEPT !.i = top.i + 1]]

DfsCall ==
    /\ pc = "dfs"
    /\ stack # <<>>
    /\ LET top == stack[Len(stack)]
           deps == GraphGet(graph, top.t)
       IN /\ top.i <= Len(deps)
          /\ DfsCallBody(top, deps[top.i])
    /\ UNCHANGED <<pc, graph, start, result, order, isEmpty, priority, catalog_failed,
                   generatorVars, flowVars, populatorVars, analyzerVars, connection>>

\* the loop of a dfs frame is over: result.append(table) and the frame returns
DfsReturnBody(top) ==
    /\ result' = Append(result, top.t)
    /\ stack' = SubSeq(stack, 1, Len(stack) - 1)

DfsReturn ==
    /\ pc = "dfs"
    /\ stack # <<>>
    /\ LET top == stack[Len(stack)]
       IN /\ top.i > Len(GraphGet(graph, top.t))
          /\ DfsReturnBody(top)
    /\ UNCHANGED <<pc, graph, start, visited, order, isEmpty, priority, catalog_failed,
                   generatorVars, flowVars, populatorVars, analyzerVars, connection>>

\* return result[::-1]
SortedOrder(res) == Reverse(res)

TopologicalSortReturn ==
    /\ pc = "dfs"
    /\ stack = <<>>
    /\ order' = SortedOrder(result)
    /\ pc' = "filter"
    /\ UNCHANGED <<graph, start, visited, result, stack, isEmpty, priority, catalog_failed,
                   generatorVars, flowVars, populatorVars, analyzerVars, connection>>

\* the filter loop without the test `tbl != table_name`
RECURSIVE FilterEmptyKeepsStart(_, _, _)
FilterEmptyKeepsStart(ord, tbl, emp) ==
    IF ord = <<>> THEN <<>>
    ELSE LET rest == FilterEmptyKeepsStart(Tail(ord), tbl, emp)
         IN IF emp[Head(ord)] THEN <<Head(ord)>> \o rest ELSE rest

\* the filter loop of get_population_priority
RECURSIVE FilterEmpty(_, _, _)
FilterEmpty(ord, tbl, emp) ==
    IF ord = <<>> THEN <<>>
    ELSE LET rest == FilterEmpty(Tail(ord), tbl, emp)
         IN IF Head(ord) # tbl /\ emp[Head(ord)] THEN <<Head(ord)>> \o rest ELSE rest

PriorityFilter ==
    /\ pc = "filter"
    /\ \E emp \in [Tables -> BOOLEAN] :
        /\ isEmpty' = emp
        /\ priority' = FilterEmpty(order, start, emp)
    /\ pc' = "priority_done"
    /\ UNCHANGED <<graph, start, visited, result, stack, order, catalog_failed,
                   generatorVars, flowVars, populatorVars, analyzerVars, connection>>

\* back in the main loop: the locals of the call are gone
PriorityReturn ==
    /\ pc = "priority_done"
    /\ pc' = "idle"
    /\ graph' = <<>>
    /\ start' = NoTable
    /\ visited' = {}
    /\ result' = <<>>
    /\ stack' = <<>>
    /\ order' = <<>>
    /\ isEmpty' = [t \in Tables |-> FALSE]
    /\ priority' = <<>>
    /\ catalog_failed' = FALSE
    /\ UNCHANGED <<generatorVars, flowVars, populatorVars, analyzerVars, connection>>


\* ------------------------------------------ value generation: the calls
\* the declared maximum lengths of the model, 0 standing for None
MaxLengths == {0, 1}

\* the hints the dataset's table context can hold for a column
HintInputs == {"nohint", "email", "personal_names", "product_description",
               "date_age_based", "code_sequential", "unknown"}

\* the columns asked for unique values
UniqueColumns == {<<"integer", "qty">>, <<"boolean", "qty">>, <<"date", "qty">>,
                  <<"json", "qty">>, <<"character varying", "city">>}

\* the tables whose columns are asked for unique values
UniqueTables == {"orders", "customers"}

AllCalls == [data_type : DataTypes, column_name : ColumnNames, max_length : MaxLengths,
             hint : HintInputs, is_unique : BOOLEAN, count : 0..MaxCount,
             table_name : {NoTable} \cup UniqueTables]

\* the calls of generate_value: every type on a column whose name says nothing,
\* every column name on a text and on an integer column, every hint, and the
\* columns asked for unique values, the integer one in two tables
GvCalls ==
    {a \in AllCalls :
        /\ a.count = 0
        /\ a.table_name = (IF a.is_unique THEN a.table_name
                           ELSE IF a.hint = "nohint" THEN NoTable ELSE "orders")
        /\ a.is_unique =>
               \/ a.table_name = "orders"
               \/ a.table_name = "customers" /\ a.data_type = "integer"
        /\ \/ ~a.is_unique /\ a.hint = "nohint" /\ a.column_name = "qty" /\ a.max_length = 0
           \/ /\ ~a.is_unique /\ a.hint = "nohint"
              /\ a.data_type \in {"character varying", "integer"}
           \/ /\ ~a.is_unique /\ a.column_name = "qty" /\ a.max_length = 0
              /\ a.data_type = "integer"
           \/ /\ a.is_unique /\ a.hint = "nohint"
              /\ <<a.data_type, a.column_name>> \in UniqueColumns}

\* the calls of generate_unique_values
GuvCalls ==
    {a \in AllCalls :
        /\ a.table_name = "orders"
        /\ a.is_unique /\ a.hint = "nohint"
        /\ <<a.data_type, a.column_name>> \in UniqueColumns}

\* the values returned to the is_unique calls for column c of table t
EmittedFor(t, c) == {e[3] : e \in {x \in emitted : x[1] = t /\ x[2] = c}}

Emit(t, c, r) ==
    IF PyIn(r, EmittedFor(t, c)) THEN emitted ELSE emitted \cup {<<t, c, r>>}

\* the two caches are bounded together: between two clear_cache the model
\* fills the tracker or advances the counters
SequenceCount == Cardinality({c \in ColumnNames : sequence_counters[c] # 0})

TrackedCount == Cardinality(UNION {unique_value_tracker[c] : c \in ColumnNames})

\* generate_value called from outside the populator
GenerateValueCall ==
    /\ pc = "idle"
    /\ \E a \in GvCalls :
        /\ a.hint # "nohint" => master_dataset # "empty"
        /\ a.hint = "code_sequential" =>
               sequence_counters[a.column_name] < MaxSequence /\ TrackedCount = 0
        /\ a.is_unique => TrackedCount < MaxTracked /\ SequenceCount = 0
        /\ \E r \in GenerateValue(a, master_dataset, unique_value_tracker[a.column_name],
                                  sequence_counters[a.column_name]) :
            /\ gv_result' = r
            /\ unique_value_tracker' =
                   IF a.is_unique /\ r # TypeErrorV
                   THEN [unique_value_tracker EXCEPT ![a.column_name] = PyAdd(@, r)]
                   ELSE unique_value_tracker
            /\ emitted' =
                   IF a.is_unique /\ r # TypeErrorV
                   THEN Emit(a.table_name, a.column_name, r)
                   ELSE emitted
        /\ sequence_counters' =
               IF a.hint = "code_sequential"
               THEN [sequence_counters EXCEPT ![a.column_name] = @ + 1]
               ELSE sequence_counters
        /\ gv_args' = a
    /\ pc' = "gv_done"
    /\ UNCHANGED <<master_dataset, values, guv_result, resolverVars, flowVars,
                   populatorVars, analyzerVars, connection>>

GenerateValueReturn ==
    /\ pc = "gv_done"
    /\ pc' = "idle"
    /\ gv_args' = NoArgs
    /\ gv_result' = NoneV
    /\ UNCHANGED <<master_dataset, unique_value_tracker, sequence_counters, values,
                   guv_result, emitted, resolverVars, flowVars, populatorVars,
                   analyzerVars, connection>>

\* clear_cache
ClearCache ==
    /\ pc = "idle"
    /\ unique_value_tracker' = [c \in ColumnNames |-> {}]
    /\ sequence_counters' = [c \in ColumnNames |-> 0]
    /\ emitted' = {}
    /\ UNCHANGED <<pc, master_dataset, gv_args, gv_result, values, guv_result,
                   resolverVars, flowVars, populatorVars, analyzerVars, connection>>

\* generate_unique_values: values = set()
GenerateUniqueValuesCall ==
    /\ pc = "idle"
    /\ \E a \in GuvCalls :
        /\ TrackedCount + a.count <= MaxTracked
        /\ SequenceCount = 0
        /\ gv_args' = a
    /\ values' = {}
    /\ pc' = "guv_loop"
    /\ UNCHANGED <<master_dataset, unique_value_tracker, sequence_counters, gv_result,
                   guv_result, emitted, resolverVars, flowVars, populatorVars,
                   analyzerVars, connection>>

\* while len(values) < count
LoopGuard(vals, count) == Cardinality(vals) < count

\* one pass of the loop: generate_value(..., is_unique=True), then values.add(value)
GuvIteration ==
    /\ pc = "guv_loop"
    /\ LoopGuard(values, gv_args.count)
    /\ \E r \in GenerateValue(gv_args, master_dataset,
                              unique_value_tracker[gv_args.column_name],
                              sequence_counters[gv_args.column_name]) :
        /\ gv_result' = r
        /\ IF r = TypeErrorV
           THEN /\ guv_result' = <<"raised", <<>>>>
                /\ pc' = "guv_done"
                /\ UNCHANGED <<values, unique_value_tracker, emitted>>
           ELSE /\ unique_value_tracker' =
                       [unique_value_tracker EXCEPT ![gv_args.column_name] = PyAdd(@, r)]
                /\ emitted' = Emit(gv_args.table_name, gv_args.column_name, r)
                /\ values' = IF r # NoneV THEN PyAdd(values, r) ELSE values
                /\ UNCHANGED <<pc, guv_result>>
    /\ UNCHANGED <<master_dataset, sequence_counters, gv_args, resolverVars, flowVars,
                   populatorVars, analyzerVars, connection>>

\* return list(values)
GuvReturnList ==
    /\ pc = "guv_loop"
    /\ ~LoopGuard(values, gv_args.count)
    /\ \E q \in InjSeqs(values, Cardinality(values)) : guv_result' = <<"returned", q>>
    /\ pc' = "guv_done"
    /\ UNCHANGED <<master_dataset, unique_value_tracker, sequence_counters, gv_args,
                   gv_result, values, emitted, resolverVars, flowVars, populatorVars,
                   analyzerVars, connection>>

GuvReturn ==
    /\ pc = "guv_done"
    /\ pc' = "idle"
    /\ gv_args' = NoArgs
    /\ gv_result' = NoneV
    /\ values' = {}
    /\ guv_result' = <<"none", <<>>>>
    /\ UNCHANGED <<master_dataset, unique_value_tracker, sequence_counters, emitted,
                   resolverVars, flowVars, populatorVars, analyzerVars, connection>>

GeneratorNext ==
    \/ GenerateValueCall
    \/ GenerateValueReturn
    \/ ClearCache
    \/ GenerateUniqueValuesCall
    \/ GuvIteration
    \/ GuvReturnList
    \/ GuvReturn

GeneratorSpec == Init /\ [][GeneratorNext]_vars

\* --------------------------------------- batch population engine: actions
\* _generate_fallback_values for an integer column: list(range(1, count + 1))
GenerateFallbackValues == {IntV(i) : i \in 1..PoolCount}

\* generate_relationship_data: the values of the list it can return, sampled
\* from the referenced column when relationship_type is 'uno_a_uno' and drawn
\* with random.choice otherwise, or the fallback when the referenced table has
\* no rows
GenerateRelationshipData(relationship_type, target) ==
    IF target = {} THEN {GenerateFallbackValues}
    ELSE IF relationship_type = "uno_a_uno"
    THEN IF Cardinality(target) >= PoolCount
         THEN {S \in SUBSET target : Cardinality(S) = PoolCount}
         ELSE {target}
    ELSE {S \in SUBSET target : S # {} /\ Cardinality(S) <= PoolCount}

\* _prepare_column_data, for the one selected column
PrepareColumnData(c, config, foreign_values) ==
    LET generated == [type |-> "generated", data_type |-> c.data_type,
                      max_length |-> c.max_length, is_nullable |-> c.is_nullable,
                      values |-> {}, config |-> NoConfig]
    IN IF c.is_foreign_key
       THEN IF foreign_values # {}
            THEN [generated EXCEPT !.type = "foreign_key", !.values = foreign_values]
            ELSE generated
       ELSE IF config # NoConfig
            THEN [generated EXCEPT !.type = "configured", !.config = config]
            ELSE generated

\* _generate_column_value: the values it can return
GenerateColumnValue(col_config, col_name, i, global_index, ds) ==
    LET config == col_config.config
        generation_type == IF config.generation_type = "none" THEN "random"
                           ELSE config.generation_type
        configured == col_config.type = "configured"
    IN (IF col_config.is_nullable = "YES" THEN {NoneV} ELSE {})
       \cup
       (IF configured /\ generation_type = "fixed" THEN {config.fixed_value}
        ELSE IF configured /\ generation_type = "sequence"
                /\ TypeHas(col_config.data_type, {"int"})
        THEN {IntV(config.start_value + global_index)}
        ELSE IF configured /\ generation_type = "true" THEN {BoolV(1)}
        ELSE IF configured /\ generation_type = "false" THEN {BoolV(0)}
        ELSE IF col_config.type = "foreign_key" /\ col_config.values # {}
        THEN col_config.values
        ELSE GenerateValue([data_type |-> col_config.data_type, column_name |-> col_name,
                            max_length |-> col_config.max_length, hint |-> "nohint",
                            is_unique |-> FALSE, count |-> 0, table_name |-> NoTable],
                           ds, {}, 0))

\* the loop `for i in range(current_batch_size)`: the batches it can build, a
\* record being the value of its one selected column
RECURSIVE GenerateRecords(_, _, _, _, _)
GenerateRecords(col_config, col_name, n, generated, ds) ==
    IF n <= 0 THEN {<<>>}
    ELSE {Append(batch, v) :
            batch \in GenerateRecords(col_config, col_name, n - 1, generated, ds),
            v \in GenerateColumnValue(col_config, col_name, n - 1, generated + n - 1, ds)}

\* the rows the table can hold when populate_table is called
InitialRows(c) == IF c.unique THEN {<<>>, <<IntV(1)>>} ELSE {<<>>}

\* populate_table up to the call of _generate_data_in_batches, its batch_size
\* one of batch_sizes; its first query, in get_table_columns, raises when the
\* transaction is aborted
PopulateTableWith(batch_sizes) ==
    /\ pc = "idle"
    /\ \E c \in Columns, n \in 0..MaxRecords, bs \in batch_sizes :
        /\ col' = c
        /\ record_count' = n
        /\ batch_size' = bs
        /\ table_rows' \in InitialRows(c)
        /\ uncommitted' = <<>>
        /\ \E config \in ColumnConfigs(c.data_type),
              foreign_values \in (IF c.is_foreign_key
                                  THEN GenerateRelationshipData(DetermineRelationshipType,
                                                                c.target)
                                  ELSE {{}}) :
            /\ column_config' = config
            /\ column_data' = PrepareColumnData(c, config, foreign_values)
    /\ batches' = <<>>
    /\ records_generated' = 0
    /\ success_count' = 0
    /\ error_count' = 0
    /\ pc' = IF connection = "open" THEN "generate" ELSE "populate_raised"
    /\ UNCHANGED <<batch_index, record_index, individual_success, individual_errors,
                   row_outcomes, batch_results, resolverVars, flowVars, generatorVars,
                   analyzerVars, connection>>

\* populate_table called with a batch size of one record or more
PopulateTable == PopulateTableWith(1..MaxBatch)

\* the integers the "batch_size" entry of the configuration file can hold: the
\* file is JSON the user edits, and nothing checks the value read from it
ConfigBatchSizes == -1..MaxBatch

\* main passes app_config['defaults']['batch_size'] to populate_table
PopulateConfigured == PopulateTableWith(ConfigBatchSizes)

\* a batch as large as batch_size whatever is left to generate
CurrentBatchSizeWhole(bs, total_records, generated) == bs

\* current_batch_size = min(batch_size, total_records - records_generated)
CurrentBatchSize(bs, total_records, generated) ==
    IF bs <= total_records - generated THEN bs ELSE total_records - generated

\* one pass of `while records_generated < total_records`; the passes of a
\* loop that does not advance are followed up to MaxRecords + 1 of them,
\* more than a loop that generates a record or more in each pass can make
GenerateBatch ==
    /\ pc = "generate"
    /\ records_generated < record_count
    /\ Len(batches) <= MaxRecords
    /\ LET current_batch_size ==
               CurrentBatchSize(batch_size, record_count, records_generated)
       IN /\ \E batch \in GenerateRecords(column_data, col.column_name, current_batch_size,
                                          records_generated, master_dataset) :
                batches' = Append(batches, batch)
          /\ records_generated' = records_generated + current_batch_size
    /\ UNCHANGED <<pc, col, column_config, column_data, record_count, batch_size,
                   batch_index, success_count, error_count, record_index,
                   individual_success, individual_errors, row_outcomes, batch_results,
                   table_rows, uncommitted, resolverVars, flowVars, generatorVars,
                   analyzerVars, connection>>

\* _generate_data_in_batches returns and the insertion loop starts
GenerateReturn ==
    /\ pc = "generate"
    /\ ~(records_generated < record_count)
    /\ batch_index' = 1
    /\ pc' = "insert"
    /\ UNCHANGED <<col, column_config, column_data, record_count, batch_size, batches,
                   records_generated, success_count, error_count, record_index,
                   individual_success, individual_errors, row_outcomes, batch_results,
                   table_rows, uncommitted, resolverVars, flowVars, generatorVars,
                   analyzerVars, connection>>

\* the store raises psycopg2.Error on the INSERT of value v when the table
\* holds rows: NOT NULL, UNIQUE and FOREIGN KEY constraints
Rejects(c, v, rows) ==
    \/ c.is_nullable = "NO" /\ v = NoneV
    \/ c.unique /\ v # NoneV /\ v \in Range(rows)
    \/ c.is_foreign_key /\ v # NoneV /\ v \notin c.target

\* executemany inserts the rows of the batch in order in one transaction
BulkRejected(c, batch, rows) ==
    \E k \in 1..Len(batch) : Rejects(c, batch[k], rows \o SubSeq(batch, 1, k - 1))

RECURSIVE WrittenBeforeRejection(_, _, _)
\* the rows of the batch executemany wrote before the store raised
WrittenBeforeRejection(c, batch, rows) ==
    IF batch = <<>> \/ Rejects(c, Head(batch), rows) THEN <<>>
    ELSE <<Head(batch)>> \o WrittenBeforeRejection(c, Tail(batch), Append(rows, Head(batch)))

\* an except clause without its rollback
RollbackSkipped(written) == written

\* connection.rollback(): what the transaction wrote is gone
Rollback(written) == <<>>

BatchResult(bulk, success, errors, rows) ==
    [bulk |-> bulk, success |-> success, errors |-> errors, rows |-> rows]

\* the try of _insert_batch: executemany and commit, or the except clause
\* with its rollback, which raises in its turn when the connection is lost
ExecuteMany(c, batch, rows, lost) ==
    IF lost THEN "raised"
    ELSE IF BulkRejected(c, batch, rows) THEN "rolled_back"
    ELSE "committed"

\* the exception leaves populate_table: its locals are gone, the rows it
\* committed stay
PopulateRaises(lost) ==
    /\ pc' = "populate_raised"
    /\ connection' = IF lost THEN "lost" ELSE connection
    /\ col' = NoColumn
    /\ column_config' = NoConfig
    /\ column_data' = NoColumnData
    /\ record_count' = 0
    /\ batch_size' = 0
    /\ batches' = <<>>
    /\ records_generated' = 0
    /\ batch_index' = 0
    /\ success_count' = 0
    /\ error_count' = 0
    /\ record_index' = 0
    /\ individual_success' = 0
    /\ individual_errors' = 0
    /\ row_outcomes' = <<>>
    /\ batch_results' = <<>>
    /\ uncommitted' = <<>>
    /\ UNCHANGED table_rows

\* a loop over the batches that passes over every other one
NextBatchSkips(i) == i + 2

\* `for i, batch in enumerate(batches)`: the batch after the i-th
NextBatch(i) == i + 1

\* _insert_batch up to its return or to the call of _insert_records_individually
InsertBatch ==
    /\ pc = "insert"
    /\ batch_index <= Len(batches)
    /\ \E lost \in BOOLEAN :
        LET batch == batches[batch_index]
            outcome == IF batch = <<>> THEN "empty"
                       ELSE ExecuteMany(col, batch, table_rows \o uncommitted, lost)
        IN IF outcome = "raised" THEN PopulateRaises(lost)
           ELSE /\ IF outcome = "empty"
                   THEN /\ batch_results' =
                               Append(batch_results, BatchResult("empty", 0, 0, <<>>))
                        /\ batch_index' = NextBatch(batch_index)
                        /\ UNCHANGED <<pc, success_count, error_count, table_rows,
                                       uncommitted, record_index>>
                   ELSE IF outcome = "committed"
                   THEN /\ table_rows' = table_rows \o uncommitted \o batch
                        /\ uncommitted' = <<>>
                        /\ success_count' = success_count + Len(batch)
                        /\ error_count' = error_count + 0
                        /\ batch_results' =
                               Append(batch_results,
                                      BatchResult("committed", Len(batch), 0, <<>>))
                        /\ batch_index' = NextBatch(batch_index)
                        /\ UNCHANGED <<pc, record_index>>
                   ELSE /\ pc' = "retry"
                        /\ uncommitted' =
                               Rollback(uncommitted
                                        \o WrittenBeforeRejection(col, batch,
                                                                  table_rows \o uncommitted))
                        /\ record_index' = 1
                        /\ UNCHANGED <<table_rows, success_count, error_count,
                                       batch_results, batch_index>>
                /\ individual_success' = 0
                /\ individual_errors' = 0
                /\ row_outcomes' = <<>>
                /\ UNCHANGED <<col, column_config, column_data, record_count, batch_size,
                               batches, records_generated, connection>>
    /\ UNCHANGED <<resolverVars, flowVars, generatorVars, analyzerVars>>

\* the try of _insert_records_individually without its except clause
InsertRecordResultUnhandled(c, record, rows, lost) ==
    IF lost \/ Rejects(c, record, rows) THEN "raised" ELSE "committed"

\* the try of _insert_records_individually: execute and commit, or the except
\* clause with its rollback, which raises in its turn when the connection is
\* lost
InsertRecordResult(c, record, rows, lost) ==
    IF lost THEN "raised"
    ELSE IF Rejects(c, record, rows) THEN "rolled_back"
    ELSE "committed"

\* one pass of the loop of _insert_records_individually
InsertRecord ==
    /\ pc = "retry"
    /\ record_index <= Len(batches[batch_index])
    /\ \E lost \in BOOLEAN :
        LET record == batches[batch_index][record_index]
            outcome == InsertRecordResult(col, record, table_rows \o uncommitted, lost)
            accepted == outcome = "committed"
        IN IF outcome = "raised" THEN PopulateRaises(lost)
           ELSE /\ table_rows' = IF accepted
                                THEN Append(table_rows \o uncommitted, record)
                                ELSE table_rows
                /\ uncommitted' = IF accepted THEN <<>> ELSE Rollback(uncommitted)
                /\ individual_success' = individual_success + (IF accepted THEN 1 ELSE 0)
                /\ individual_errors' = individual_errors + (IF accepted THEN 0 ELSE 1)
                /\ row_outcomes' = Append(row_outcomes, accepted)
                /\ record_index' = record_index + 1
                /\ UNCHANGED <<pc, col, column_config, column_data, record_count,
                               batch_size, batches, records_generated, batch_index,
                               success_count, error_count, batch_results, connection>>
    /\ UNCHANGED <<resolverVars, flowVars, generatorVars, analyzerVars>>

\* error_count of _insert_batch keeps the errors of the bulk attempt
BatchErrorsAdded(bulk_errors, retry_errors) == bulk_errors + retry_errors

\* error_count = len(batch), then error_count = individual_errors
BatchErrors(bulk_errors, retry_errors) == retry_errors

\* _insert_records_individually returns, _insert_batch returns after it and
\* populate_table adds the two counts to its own
InsertBatchReturn ==
    /\ pc = "retry"
    /\ record_index > Len(batches[batch_index])
    /\ LET batch_success == 0 + individual_success
           batch_errors == BatchErrors(Len(batches[batch_index]), individual_errors)
       IN /\ success_count' = success_count + batch_success
          /\ error_count' = error_count + batch_errors
          /\ batch_results' =
                 Append(batch_results,
                        BatchResult("rejected", batch_success, batch_errors, row_outcomes))
    /\ batch_index' = NextBatch(batch_index)
    /\ record_index' = 0
    /\ pc' = "insert"
    /\ UNCHANGED <<col, column_config, column_data, record_count, batch_size, batches,
                   records_generated, individual_success, individual_errors, row_outcomes,
                   table_rows, uncommitted, resolverVars, flowVars, generatorVars,
                   analyzerVars, connection>>

\* return success_count, error_count
PopulateReturn ==
    /\ pc = "insert"
    /\ batch_index > Len(batches)
    /\ pc' = "populate_done"
    /\ UNCHANGED <<populatorVars, resolverVars, flowVars, generatorVars, analyzerVars,
                   connection>>

\* back in the main loop: the locals of the call are gone
PopulateExit ==
    /\ pc = "populate_done"
    /\ pc' = "idle"
    /\ col' = NoColumn
    /\ column_config' = NoConfig
    /\ column_data' = NoColumnData
    /\ record_count' = 0
    /\ batch_size' = 0
    /\ batches' = <<>>
    /\ records_generated' = 0
    /\ batch_index' = 0
    /\ success_count' = 0
    /\ error_count' = 0
    /\ record_index' = 0
    /\ individual_success' = 0
    /\ individual_errors' = 0
    /\ row_outcomes' = <<>>
    /\ batch_results' = <<>>
    /\ table_rows' = <<>>
    /\ uncommitted' = <<>>
    /\ UNCHANGED <<resolverVars, flowVars, generatorVars, analyzerVars, connection>>

PopulatorNext ==
    \/ PopulateTable
    \/ GenerateBatch
    \/ GenerateReturn
    \/ InsertBatch
    \/ InsertRecord
    \/ InsertBatchReturn
    \/ PopulateReturn
    \/ PopulateExit

\* the CLI builds its generator on the dataset file shipped with the program
PopulatorInit == Init /\ master_dataset = "full"

PopulatorSpec == PopulatorInit /\ [][PopulatorNext]_vars

\* the populator as main runs it, on the batch size of the configuration
ConfiguredNext ==
    \/ PopulateConfigured
    \/ GenerateBatch
    \/ GenerateReturn
    \/ InsertBatch
    \/ InsertRecord
    \/ InsertBatchReturn
    \/ PopulateReturn
    \/ PopulateExit

ConfiguredSpec == PopulatorInit /\ [][ConfiguredNext]_vars


\* ---------------------------------------- relationship analyzer: actions
\* a statement on an aborted transaction fails; on an open one it can fail
QueryOutcomes(conn, failures) ==
    IF conn # "open" THEN {"error"}
    ELSE IF failures < MaxFailures THEN {"ok", "error"}
    ELSE {"ok"}

\* the failures that were not forced by an aborted transaction
FailuresAfter(conn, outcome, failures) ==
    IF conn = "open" /\ outcome # "ok" THEN failures + 1 ELSE failures

\* SchemaAnalyzer.analyze_relationships: one relationship per row of the
\* foreign-key query, in the order the store returns them (the query has no
\* ORDER BY), none when the query fails
AnalyzeRelationships(cat, outcome) ==
    IF outcome = "ok"
    THEN {[i \in 1..Len(q) |-> [column |-> q[i].column, foreign |-> q[i].foreign,
                                relationship_type |-> DetermineRelationshipType]] :
            q \in InjSeqs(cat, Cardinality(cat))}
    ELSE {<<>>}

\* SELECT COUNT(DISTINCT foreign_column): NULLs are not counted
ForeignUnique(target) == Cardinality(target.values \ {NoneV})

\* the count of constraints of type 'UNIQUE' on the target column is > 0
HasUnique(target) == target.constraint = "unique"

\* _determine_cardinality with `elif has_unique` tested first
DetermineCardinalityPotentialFirst(rel, outcome) ==
    IF outcome # "ok" THEN rel.relationship_type
    ELSE IF rel.relationship_type = "uno_a_muchos" /\ HasUnique(rel.foreign)
    THEN "uno_a_uno_potencial"
    ELSE rel.relationship_type

\* _determine_cardinality with an except clause that answers with a type of
\* its own
DetermineCardinalityUnknownOnError(rel, outcome) ==
    IF outcome # "ok" THEN "desconocida"
    ELSE IF rel.relationship_type = "uno_a_muchos"
    THEN IF HasUnique(rel.foreign) /\ ForeignUnique(rel.foreign) = 1
         THEN "uno_a_uno_exacto"
         ELSE IF HasUnique(rel.foreign) THEN "uno_a_uno_potencial"
         ELSE rel.relationship_type
    ELSE rel.relationship_type

\* _determine_cardinality; outcome says which of its two queries failed, if any
DetermineCardinality(rel, outcome) ==
    IF outcome = "error_count" THEN rel.relationship_type
    ELSE IF rel.relationship_type = "uno_a_muchos"
    THEN IF outcome = "error_unique" THEN rel.relationship_type
         ELSE IF HasUnique(rel.foreign) /\ ForeignUnique(rel.foreign) = 1
         THEN "uno_a_uno_exacto"
         ELSE IF HasUnique(rel.foreign) THEN "uno_a_uno_potencial"
         ELSE rel.relationship_type
    ELSE rel.relationship_type

\* _check_data_availability: has_data, the number of distinct values and the
\* distinct values of the target column
CheckDataAvailability(rel, outcome) ==
    IF outcome = "ok"
    THEN [has_data |-> rel.foreign.values # {},
          distinct_values |-> Cardinality(rel.foreign.values),
          values |-> rel.foreign.values]
    ELSE [has_data |-> FALSE, distinct_values |-> 0, values |-> {}]

\* _generate_recommendation
GenerateRecommendation(rel, outcome) ==
    LET availability == CheckDataAvailability(rel, outcome)
    IN IF ~availability.has_data THEN "populate_first"
       ELSE IF availability.distinct_values < FewValues THEN "few_values"
       ELSE IF rel.relationship_type = "muchos_a_muchos" THEN "intermediate_table"
       ELSE "ready"

\* the cardinality the analysis returns for each column
Cardinalities(info) == {[column |-> e.column, cardinality |-> e.cardinality] : e \in info}

\* advanced_info[key] = value
DictSet(info, key, value) == {e \in info : e.column # key} \cup {value}

\* the first statement of analyze_advanced_relationships
AnalyzeCall(cat) ==
    \E outcome \in QueryOutcomes(connection, query_failures) :
        /\ basic_relationships' \in AnalyzeRelationships(cat, outcome)
        /\ query_log' = [relationships |-> outcome, done |-> 0, edges |-> {}]
        /\ connection' \in ConnectionAfter(connection, outcome)
        /\ query_failures' = FailuresAfter(connection, outcome, query_failures)

\* analyze_advanced_relationships up to its loop
AnalyzeAdvancedRelationships ==
    /\ pc = "idle"
    /\ \E cat \in Catalogs :
        /\ catalog' = cat
        /\ AnalyzeCall(cat)
    /\ advanced_info' = {}
    /\ previous_info' = NoPreviousInfo
    /\ pc' = "analyze"
    /\ UNCHANGED <<resolverVars, flowVars, generatorVars, populatorVars>>

\* what the queries of one pass of the loop answer: those of
\* _determine_cardinality, of _check_data_availability and of
\* _generate_recommendation, with the connection and the failures after them
EdgeQueries(conn, failures) ==
    {r \in [o1 : {"ok", "error_count", "error_unique"}, o2 : {"ok", "error"},
            o3 : {"ok", "error"}, c1 : {"open", "aborted"}, c2 : {"open", "aborted"},
            c3 : {"open", "aborted"}] :
        LET e1 == IF r.o1 = "ok" THEN "ok" ELSE "error"
            f1 == FailuresAfter(conn, e1, failures)
            f2 == FailuresAfter(r.c1, r.o2, f1)
        IN /\ e1 \in QueryOutcomes(conn, failures)
           /\ conn # "open" => r.o1 = "error_count"
           /\ r.c1 \in ConnectionAfter(conn, e1)
           /\ r.o2 \in QueryOutcomes(r.c1, f1)
           /\ r.c2 \in ConnectionAfter(r.c1, r.o2)
           /\ r.o3 \in QueryOutcomes(r.c2, f2)
           /\ r.c3 \in ConnectionAfter(r.c2, r.o3)}

\* one pass of `for rel in basic_relationships`
AnalyzeEdge ==
    /\ pc = "analyze"
    /\ query_log.done < Len(basic_relationships)
    /\ LET rel == basic_relationships[query_log.done + 1]
       IN \E r \in EdgeQueries(connection, query_failures) :
            /\ connection' = r.c3
            /\ query_failures' =
                   FailuresAfter(r.c2, r.o3,
                       FailuresAfter(r.c1, r.o2,
                           FailuresAfter(connection, r.o1, query_failures)))
            /\ advanced_info' =
                   DictSet(advanced_info, rel.column,
                           [column |-> rel.column,
                            foreign |-> rel.foreign,
                            relationship_type |-> rel.relationship_type,
                            cardinality |-> DetermineCardinality(rel, r.o1),
                            data_availability |-> CheckDataAvailability(rel, r.o2),
                            recommendation |-> GenerateRecommendation(rel, r.o3)])
            /\ query_log' = [query_log EXCEPT
                                !.done = @ + 1,
                                !.edges = DictSet(@, rel.column,
                                                  [column |-> rel.column,
                                                   cardinality |-> r.o1])]
    /\ UNCHANGED <<pc, catalog, basic_relationships, previous_info,
                   resolverVars, flowVars, generatorVars, populatorVars>>

\* return advanced_info
AnalyzeReturn ==
    /\ pc = "analyze"
    /\ ~(query_log.done < Len(basic_relationships))
    /\ pc' = "analyze_done"
    /\ UNCHANGED <<analyzerVars, connection, resolverVars, flowVars, generatorVars,
                   populatorVars>>

\* the caller analyses the same table again, nothing having changed
AnalyzeAgain ==
    /\ pc = "analyze_done"
    /\ ~previous_info.called
    /\ previous_info' = [called |-> TRUE, cardinalities |-> Cardinalities(advanced_info)]
    /\ AnalyzeCall(catalog)
    /\ advanced_info' = {}
    /\ pc' = "analyze"
    /\ UNCHANGED <<catalog, resolverVars, flowVars, generatorVars, populatorVars>>

\* back in the main loop: the locals of the call are gone
AnalyzeExit ==
    /\ pc = "analyze_done"
    /\ pc' = "idle"
    /\ catalog' = {}
    /\ basic_relationships' = <<>>
    /\ advanced_info' = {}
    /\ query_log' = NoQueryLog
    /\ previous_info' = NoPreviousInfo
    /\ query_failures' = 0
    /\ UNCHANGED <<connection, resolverVars, flowVars, generatorVars, populatorVars>>

AnalyzerNext ==
    \/ AnalyzeAdvancedRelationships
    \/ AnalyzeEdge
    \/ AnalyzeReturn
    \/ AnalyzeAgain
    \/ AnalyzeExit

\* the dataset plays no part in the analysis
AnalyzerInit == Init /\ master_dataset = "full"

AnalyzerSpec == AnalyzerInit /\ [][AnalyzerNext]_vars

\* DatabaseManager.table_exists
TableExists(sch, t) == t \in FlowTables

RECURSIVE ValidateLoop(_, _, _, _)
\* the loop `for rel in relationships` of validate_foreign_key_constraints
ValidateLoop(sch, relationships, warnings, empty_related_tables) ==
    IF relationships = <<>>
    THEN [fk_valid |-> warnings = <<>>, warnings |-> warnings,
          empty_related_tables |-> empty_related_tables]
    ELSE LET rel == Head(relationships)
             rest == Tail(relationships)
         IN IF ~TableExists(sch, rel.foreign_table)
            THEN ValidateLoop(sch, rest, Append(warnings, "missing_table"),
                              empty_related_tables)
            ELSE LET is_empty == sch.empty[rel.foreign_table]
                     w1 == IF is_empty THEN Append(warnings, "empty_table") ELSE warnings
                     e1 == IF is_empty
                           THEN Append(empty_related_tables, rel.foreign_table)
                           ELSE empty_related_tables
                     w2 == IF rel.foreign_column = "gone"
                           THEN Append(w1, "missing_column") ELSE w1
                 IN ValidateLoop(sch, rest, w2, e1)

\* validate_foreign_key_constraints, no query failing
ValidateForeignKeyConstraints(sch, t) == ValidateLoop(sch, sch.fks[t], <<>>, <<>>)

\* _build_dependency_graph on the schema
DependencyGraph(sch) ==
    [t \in FlowTables |-> [i \in 1..Len(sch.fks[t]) |-> sch.fks[t][i].foreign_table]]

\* the element of a set of one element: a value computed once
The(S) == CHOOSE x \in S : TRUE

RECURSIVE Dfs(_, _, _)
RECURSIVE DfsLoop(_, _, _)
\* the loop `for dependency in graph.get(table, [])`; acc is <<visited, result>>
DfsLoop(g, deps, acc) ==
    IF deps = <<>> THEN acc
    ELSE The({DfsLoop(g, Tail(deps), after) : after \in {Dfs(g, Head(deps), acc)}})

\* dfs(table) of _topological_sort
Dfs(g, table, acc) ==
    IF table \in acc[1] THEN acc
    ELSE The({<<after[1], Append(after[2], table)>> :
                after \in {DfsLoop(g, GraphGet(g, table), <<acc[1] \cup {table}, acc[2]>>)}})

\* _topological_sort
TopologicalSort(g, start_table) == Reverse(Dfs(g, start_table, <<{}, <<>>>>)[2])

\* _is_table_empty: True also when its query fails, as on a table not found
IsTableEmpty(sch, t) == IF t \in FlowTables THEN sch.empty[t] ELSE TRUE

\* get_population_priority, as a function of the schema
PopulationPriority(sch, t) ==
    LET priority_order == TopologicalSort(DependencyGraph(sch), t)
        keep == [tbl \in Tables \cup {MissingTable} |-> tbl # t /\ IsTableEmpty(sch, tbl)]
    IN FilterEmpty(priority_order, t, keep)

\* lines 72-76 of main and 489-499 of analyze_and_confirm: the foreign keys
\* of the table are validated and, when a related table is empty, the
\* population priority is asked for; fk_valid and fk_warnings are not read
CheckRelatedTables(sch, t) ==
    LET v == ValidateForeignKeyConstraints(sch, t)
    IN [table |-> t, original |-> NoTable, warnings |-> v.warnings,
        empty_related_tables |-> v.empty_related_tables,
        priority_order |-> IF v.empty_related_tables = <<>> THEN <<>>
                           ELSE PopulationPriority(sch, t)]

\* get_population_priority asks _is_table_empty about every other table of
\* the order: on a table that is not found the query fails and the
\* transaction of the session is aborted
PriorityAborts(sch, t) ==
    MissingTable \in Range(TopologicalSort(DependencyGraph(sch), t))

\* where the code goes after the check: priority_order[0] raises IndexError
\* on an empty list
AfterCheck(sch, c, prompt, otherwise) ==
    IF c.empty_related_tables = <<>> THEN otherwise
    ELSE IF PriorityAborts(sch, c.table) THEN "flow_aborted"
    ELSE IF c.priority_order = <<>> THEN "flow_crashed"
    ELSE prompt

Frame(kind, table, original, warnings) ==
    [kind |-> kind, table |-> table, original |-> original, warnings |-> warnings]

Top(s) == s[Len(s)]

Pop(s) == SubSeq(s, 1, Len(s) - 1)

\* "connect" in the main menu: the session works on one database
Connect ==
    /\ pc = "idle"
    /\ schema = NoSchema
    /\ schema' \in Schemas
    /\ pc' = "menu"
    /\ UNCHANGED <<frames, call, returned, resolverVars, generatorVars, populatorVars,
                   analyzerVars, connection>>

\* "exit" in the main menu
MainExit ==
    /\ pc = "menu"
    /\ pc' = "flow_exited"
    /\ UNCHANGED <<flowVars, resolverVars, generatorVars, populatorVars, analyzerVars,
                   connection>>

\* one iteration of the main loop up to its first question after the
\* validation: the table and its columns are selected, the structure of a
\* table that exists is valid, and without empty related tables main calls
\* analyze_and_confirm
MainSelectTable(t) ==
    /\ pc = "menu"
    /\ call' = CheckRelatedTables(schema, t)
    /\ pc' = AfterCheck(schema, call', "main_switch_prompt", "aac")
    /\ frames' = IF pc' = "aac" THEN <<Frame("main", t, NoTable, call'.warnings)>>
                 ELSE <<>>
    /\ connection' = IF pc' = "flow_aborted" THEN "aborted" ELSE connection
    /\ UNCHANGED <<schema, returned, resolverVars, generatorVars, populatorVars,
                   analyzerVars>>

\* the question of main "cambiar a poblar priority_order[0] primero": yes
\* calls switch_to_priority_table, no goes on with the loop or leaves it
MainSwitchPrompt(answer, again) ==
    /\ pc = "main_switch_prompt"
    /\ IF answer
       THEN /\ call' = [NoCall EXCEPT !.table = call.priority_order[1],
                                      !.original = call.table]
            /\ frames' = <<Frame("main_switch", call.table, NoTable, call.warnings)>>
            /\ pc' = "switch"
       ELSE /\ call' = NoCall
            /\ frames' = <<>>
            /\ pc' = IF again THEN "menu" ELSE "flow_exited"
    /\ UNCHANGED <<schema, returned, resolverVars, generatorVars, populatorVars,
                   analyzerVars, connection>>

\* switch_to_priority_table up to its call of analyze_and_confirm: the user
\* selects columns or cancels
SwitchToPriorityTable(proceed) ==
    /\ pc = "switch"
    /\ IF proceed
       THEN /\ Len(frames) < MaxDepth
            /\ frames' = Append(frames, Frame("switch", call.table, call.original, <<>>))
            /\ call' = [NoCall EXCEPT !.table = call.table]
            /\ returned' = returned
            /\ pc' = "aac"
       ELSE /\ returned' = FALSE
            /\ call' = NoCall
            /\ frames' = frames
            /\ pc' = "flow_return"
    /\ UNCHANGED <<schema, resolverVars, generatorVars, populatorVars, analyzerVars,
                   connection>>

\* analyze_and_confirm up to its first question
AnalyzeAndConfirm ==
    /\ pc = "aac"
    /\ call' = CheckRelatedTables(schema, call.table)
    /\ pc' = AfterCheck(schema, call', "aac_switch_prompt", "aac_continue_prompt")
    /\ connection' = IF pc' = "flow_aborted" THEN "aborted" ELSE connection
    /\ UNCHANGED <<schema, frames, returned, resolverVars, generatorVars, populatorVars,
                   analyzerVars>>

\* the question of analyze_and_confirm "cambiar y poblar priority_order[0]
\* primero": yes returns what switch_to_priority_table returns
AacSwitchPrompt(answer) ==
    /\ pc = "aac_switch_prompt"
    /\ IF answer
       THEN /\ call' = [NoCall EXCEPT !.table = call.priority_order[1],
                                      !.original = call.table]
            /\ returned' = returned
            /\ pc' = "switch"
       ELSE /\ call' = NoCall
            /\ returned' = FALSE
            /\ pc' = "flow_return"
    /\ UNCHANGED <<schema, frames, resolverVars, generatorVars, populatorVars,
                   analyzerVars, connection>>

\* what the user can answer to "continuar con la inserción" and to the
\* menu that follows a no
ContinueChoices == {"continue", "reconfigure", "new_table", "main_menu", "exit"}

\* the question of analyze_and_confirm "continuar con la inserción"
AacContinuePrompt(choice, new_table) ==
    /\ pc = "aac_continue_prompt"
    /\ CASE choice = "continue" ->
                /\ returned' = TRUE
                /\ call' = NoCall
                /\ pc' = "flow_return"
         [] choice = "reconfigure" ->
                /\ returned' = returned
                /\ call' = [NoCall EXCEPT !.table = call.table]
                /\ pc' = "aac"
         [] choice = "new_table" ->
                /\ returned' = returned
                /\ call' = [NoCall EXCEPT !.table = new_table]
                /\ pc' = "aac"
         [] choice = "main_menu" ->
                /\ returned' = FALSE
                /\ call' = NoCall
                /\ pc' = "flow_return"
         [] choice = "exit" ->
                /\ returned' = returned
                /\ call' = NoCall
                /\ pc' = "flow_exited"
    /\ frames' = IF choice = "exit" THEN <<>> ELSE frames
    /\ UNCHANGED <<schema, resolverVars, generatorVars, populatorVars, analyzerVars,
                   connection>>

\* a call returns to the frame that waits for it: main goes on to the final
\* confirmation and populate_table when analyze_and_confirm returned True,
\* switch_to_priority_table populates the priority table when it did
FlowReturn(confirmed, again) ==
    /\ pc = "flow_return"
    /\ frames # <<>>
    /\ LET f == Top(frames)
       IN CASE f.kind = "main" /\ returned /\ confirmed ->
                    /\ frames' = frames
                    /\ returned' = returned
                    /\ pc' = "flow_populate"
            [] f.kind = "switch" /\ returned ->
                    /\ frames' = frames
                    /\ returned' = returned
                    /\ pc' = "flow_populate"
            [] f.kind = "switch" /\ ~returned ->
                    /\ frames' = Pop(frames)
                    /\ returned' = FALSE
                    /\ pc' = "flow_return"
            [] OTHER ->
                    /\ frames' = <<>>
                    /\ returned' = FALSE
                    /\ pc' = IF again THEN "menu" ELSE "flow_exited"
    /\ UNCHANGED <<schema, call, resolverVars, generatorVars, populatorVars, analyzerVars,
                   connection>>

\* the table whose populate_table call is running
PopulatedTable == Top(frames).table

\* populate_table has returned: with rows stored the table is no longer
\* empty; main asks for another operation, switch_to_priority_table asks
\* whether to go back to the original table
FlowPopulate(stored, answer) ==
    /\ pc = "flow_populate"
    /\ schema' = [schema EXCEPT !.empty[PopulatedTable] = @ /\ ~stored]
    /\ LET f == Top(frames)
       IN IF f.kind = "main"
          THEN /\ frames' = <<>>
               /\ call' = NoCall
               /\ returned' = FALSE
               /\ pc' = IF answer THEN "menu" ELSE "flow_exited"
          ELSE /\ frames' = Pop(frames)
               /\ IF stored /\ answer
                  THEN /\ call' = [NoCall EXCEPT !.table = f.original]
                       /\ returned' = returned
                       /\ pc' = "aac"
                  ELSE /\ call' = NoCall
                       /\ returned' = FALSE
                       /\ pc' = "flow_return"
    /\ UNCHANGED <<resolverVars, generatorVars, populatorVars, analyzerVars, connection>>

FlowNext ==
    \/ Connect
    \/ MainExit
    \/ \E t \in FlowTables : MainSelectTable(t)
    \/ \E answer, again \in BOOLEAN : MainSwitchPrompt(answer, again)
    \/ \E proceed \in BOOLEAN : SwitchToPriorityTable(proceed)
    \/ AnalyzeAndConfirm
    \/ \E answer \in BOOLEAN : AacSwitchPrompt(answer)
    \/ \E choice \in ContinueChoices, new_table \in FlowTables :
            AacContinuePrompt(choice, new_table)
    \/ \E confirmed, again \in BOOLEAN : FlowReturn(confirmed, again)
    \/ \E stored, answer \in BOOLEAN : FlowPopulate(stored, answer)

FlowSpec == Init /\ [][FlowNext]_vars

Next ==
    \/ GetPopulationPriority
    \/ DfsCall
    \/ DfsReturn
    \/ TopologicalSortReturn
    \/ PriorityFilter
    \/ PriorityReturn
    \/ GeneratorNext
    \/ PopulatorNext
    \/ AnalyzerNext
    \/ FlowNext
    \/ PopulateConfigured

Spec == Init /\ [][Next]_vars

\* the control flow is sequential: a dfs that can step does step
ResolverNext ==
    \/ GetPopulationPriority
    \/ DfsCall
    \/ DfsReturn
    \/ TopologicalSortReturn
    \/ PriorityFilter
    \/ PriorityReturn

ResolverSpec == Init /\ [][ResolverNext]_vars

FairResolver ==
    /\ Init
    /\ [][ResolverNext]_vars
    /\ WF_vars(DfsCall)
    /\ WF_vars(DfsReturn)
    /\ WF_vars(TopologicalSortReturn)

\* ------------------------------------------------ resolver: properties
\* the tables reachable from the tables of S through foreign-key edges
RECURSIVE ReachFrom(_, _)
ReachFrom(g, S) ==
    LET N == S \cup {d \in Tables : \E t \in S : d \in Range(GraphGet(g, t))}
    IN IF N = S THEN S ELSE ReachFrom(g, N)

Reachable(g, s) == ReachFrom(g, {s})

Acyclic(g) == \A t \in Tables : t \notin ReachFrom(g, Range(GraphGet(g, t)))

ExactlyOnce(s, S) == Range(s) = S /\ Len(s) = Cardinality(S)

Sorted == pc \in {"filter", "priority_done"}

\* C3: for an acyclic graph the resolver returns every table reachable from
\* start exactly once, and every dependency before each table that depends on it
C3_DependenciesBeforeDependents ==
    (Sorted /\ Acyclic(graph)) =>
        /\ ExactlyOnce(order, Reachable(graph, start))
        /\ \A t \in Range(order) : \A d \in Range(GraphGet(graph, t)) :
               IndexOf(order, d) < IndexOf(order, t)

C5_PriorityDependenciesFirst ==
    (pc = "priority_done" /\ Acyclic(graph)) =>
        /\ \A b \in Range(priority) : \A c \in Range(priority) :
               c \in Range(GraphGet(graph, b)) =>
                   IndexOf(priority, c) < IndexOf(priority, b)
        /\ (priority # <<>> =>
               \A c \in Range(GraphGet(graph, priority[1])) : ~isEmpty[c])

\* C6: for every graph, cyclic ones included, the resolver stops and returns
\* every table reachable from start exactly once; a table without foreign keys
\* resolves to itself alone
C6_ResolverTerminates ==
    /\ [](Sorted =>
            /\ ExactlyOnce(order, Reachable(graph, start))
            /\ (GraphGet(graph, start) = <<>> => order = <<start>>))
    /\ [](pc = "dfs" => Len(stack) <= Cardinality(Tables))
    /\ ((pc = "dfs") ~> (pc = "filter"))

C6_Witness ==
    /\ pc = "filter"
    /\ start = "orders"
    /\ GraphGet(graph, "orders") = <<"customers", "orders">>
    /\ GraphGet(graph, "customers") = <<"orders">>
    /\ order = <<"orders", "customers">>
\* ----------------------------------------- value generation: properties
\* C9: generate_value never returns None, whatever the column name, the
\* declared type, the maximum length and the dataset
C9_GenerateValueNeverNull ==
    pc = "gv_done" => gv_result # NoneV

C9_Witness ==
    /\ pc = "gv_done"
    /\ master_dataset = "empty"
    /\ gv_args.column_name = "city"
    /\ gv_args.data_type = "character varying"
    /\ gv_result \in TextValue

\* the values generate_value draws for a column before any uniqueness step
ValueSpace(a) == GenerateValue([a EXCEPT !.is_unique = FALSE], master_dataset, {}, 0)

PairwiseDistinct(q) == \A i \in DOMAIN q : \A j \in DOMAIN q : i # j => ~PyEq(q[i], q[j])

\* C10: generate_unique_values with count N returns a list of exactly N
\* pairwise distinct values whenever the value space holds at least N values
C10_UniqueValuesDistinct ==
    (pc = "guv_done" /\ Cardinality(ValueSpace(gv_args)) >= gv_args.count) =>
        /\ guv_result[1] = "returned"
        /\ Len(guv_result[2]) = gv_args.count
        /\ PairwiseDistinct(guv_result[2])

\* C11: the uniqueness tracker is scoped per (table, column): the values an
\* is_unique call for a column of one table is tested against are values
\* returned for that column of that table, never those returned for the
\* same-named column of another table
C11_TrackerScopedPerTableColumn ==
    (pc \in {"gv_done", "guv_loop", "guv_done"} /\ gv_args.is_unique) =>
        unique_value_tracker[gv_args.column_name]
            \subseteq EmittedFor(gv_args.table_name, gv_args.column_name)

\* C12: a string that generate_value returns for a column with a declared
\* maximum length is at most that long, whichever layer produced it
C12_StringsRespectMaxLength ==
    (pc = "gv_done" /\ gv_result.k = "str" /\ gv_args.max_length # 0) =>
        Len(gv_result.s) <= gv_args.max_length

\* --------------------------------------- batch population engine: properties
\* _generate_data_in_batches has returned
GenerationOver == pc \in {"insert", "retry", "populate_done"}

BatchSizes == [i \in 1..Len(batches) |-> Len(batches[i])]

\* the generated records in generation order
RECURSIVE Flatten(_)
Flatten(bs) == IF bs = <<>> THEN <<>> ELSE Head(bs) \o Flatten(Tail(bs))

CeilDiv(n, d) == (n + d - 1) \div d

\* C1: populate_table splits record_count records into ceil(record_count /
\* batch_size) batches, each of batch_size records except a last one that may
\* be smaller, and the counts it returns add up to record_count
C1_BatchesPartitionRecords ==
    /\ GenerationOver =>
        /\ Len(batches) = CeilDiv(record_count, batch_size)
        /\ \A i \in 1..Len(batches) :
            IF i < Len(batches) THEN Len(batches[i]) = batch_size
            ELSE Len(batches[i]) \in 1..batch_size
        /\ Len(Flatten(batches)) = record_count
    /\ pc = "populate_done" => success_count + error_count = record_count

\* 5 records in batches of 2, some rows accepted and some rejected
C1_Witness ==
    /\ pc = "populate_done"
    /\ record_count = 5
    /\ batch_size = 2
    /\ BatchSizes = <<2, 2, 1>>
    /\ success_count > 0
    /\ error_count > 0

Count(s, b) == Cardinality({i \in 1..Len(s) : s[i] = b})

\* C2: a batch whose bulk insert is rejected is retried row by row, and what
\* _insert_batch returns for it is the number of rows the store accepted and
\* the number of rows it rejected in the retry, the errors of the bulk attempt
\* not being added
C2_RowRetryCounts ==
    \A i \in 1..Len(batch_results) :
        batch_results[i].bulk = "rejected" =>
            /\ Len(batch_results[i].rows) = Len(batches[i])
            /\ batch_results[i].success = Count(batch_results[i].rows, TRUE)
            /\ batch_results[i].errors = Count(batch_results[i].rows, FALSE)

\* a batch of 3 rows of which only the second is rejected in the retry, for
\* the NULL it puts in a NOT NULL column
C2_Witness ==
    \E i \in 1..Len(batch_results) :
        /\ col.is_nullable = "NO"
        /\ Len(batches[i]) = 3
        /\ batches[i][2] = NoneV
        /\ batch_results[i].bulk = "rejected"
        /\ batch_results[i].rows = <<TRUE, FALSE, TRUE>>
        /\ batch_results[i].success = 2
        /\ batch_results[i].errors = 1

\* C7: a column configured as a sequence starting at s holds s, s+1, ...,
\* s+N-1 in the N generated records, in generation order across the batches
C7_SequenceIsProgression ==
    (GenerationOver /\ column_config.generation_type = "sequence") =>
        /\ Len(Flatten(batches)) = record_count
        /\ \A i \in 1..Len(Flatten(batches)) :
            Flatten(batches)[i] = IntV(column_config.start_value + i - 1)

\* the value a configuration asks for in the record of index global_index
ConfiguredValue(config, global_index) ==
    CASE config.generation_type = "fixed" -> config.fixed_value
      [] config.generation_type = "sequence" -> IntV(config.start_value + global_index)
      [] config.generation_type = "true" -> BoolV(1)
      [] config.generation_type = "false" -> BoolV(0)

\* C8: a column that has a fixed, sequence, true or false configuration holds
\* the configured value in every generated record
C8_ConfigurationDeterminesValue ==
    (GenerationOver
     /\ column_config.generation_type \in {"fixed", "sequence", "true", "false"}) =>
        \A i \in 1..Len(Flatten(batches)) :
            Flatten(batches)[i] = ConfiguredValue(column_config, i - 1)

\* ------------------------------------- relationship analyzer: properties
\* the target column is in a constraint of type UNIQUE
UniqueConstraint(target) == target.constraint = "unique"

\* the number of distinct non-NULL values the target column holds
DistinctCount(target) == Cardinality({v \in target.values : v # NoneV})

\* the entries of advanced_info whose cardinality queries both succeeded
Classified ==
    {e \in advanced_info :
        [column |-> e.column, cardinality |-> "ok"] \in query_log.edges}

CardinalityAsClaimed(target) ==
    IF UniqueConstraint(target) /\ DistinctCount(target) = 1 THEN "uno_a_uno_exacto"
    ELSE IF UniqueConstraint(target) /\ DistinctCount(target) > 1 THEN "uno_a_uno_potencial"
    ELSE "uno_a_muchos"

\* C13: an edge is one-to-one exact exactly when its target column has a
\* uniqueness constraint and holds one distinct value, one-to-one potential
\* exactly when it has the constraint and holds more than one, and one-to-many
\* in every other case, a target column with no values included
C13_CardinalityAsClaimed ==
    \A e \in Classified : e.cardinality = CardinalityAsClaimed(e.foreign)

CardinalityAmended(target) ==
    IF UniqueConstraint(target) /\ DistinctCount(target) = 1 THEN "uno_a_uno_exacto"
    ELSE IF UniqueConstraint(target) THEN "uno_a_uno_potencial"
    ELSE "uno_a_muchos"

\* C13 as amended: one-to-one potential exactly when the target column is in
\* a UNIQUE constraint and holds no or more than one distinct value; never
\* many-to-many
C13_CardinalityAmended ==
    \A e \in advanced_info :
        /\ e.cardinality # "muchos_a_muchos"
        /\ e \in Classified => e.cardinality = CardinalityAmended(e.foreign)

\* the three classes in one analysis, the potential one for an empty target
C13_Witness ==
    /\ pc = "analyze_done"
    /\ \E e \in Classified :
        /\ e.cardinality = "uno_a_uno_potencial"
        /\ e.foreign.values = {}
    /\ \E e \in Classified : e.cardinality = "uno_a_uno_exacto"

\* the entries of advanced_info one of whose cardinality queries failed
Degraded == advanced_info \ Classified

C15_SecondCallSameCardinalities ==
    (pc = "analyze_done" /\ previous_info.called /\ query_failures = 0) =>
        Cardinalities(advanced_info) = previous_info.cardinalities

\* the values of the generated records, in the order they were generated
GeneratedValues == Flatten(batches)

OneToOne(c) == c.is_foreign_key /\ c.cardinality \in {"uno_a_uno_exacto", "uno_a_uno_potencial"}

\* C16: on a foreign key classified one-to-one no value of the pool is given
\* to a second record before every value of the pool was given to one
C16_OneToOneWithoutReplacement ==
    (pc = "insert" /\ OneToOne(col)) =>
        \A i, j \in 1..Len(GeneratedValues) :
            (i < j /\ GeneratedValues[i] # NoneV
             /\ GeneratedValues[i] = GeneratedValues[j]) =>
                column_data.values \subseteq Range(SubSeq(GeneratedValues, 1, j - 1))

\* C17: when the referenced table has no rows, no record populate_table
\* generates carries in the foreign-key column a value the referenced column
\* does not hold
C17_EmptyTargetNotResolved ==
    (pc \in {"insert", "retry", "populate_done"} /\ col.is_foreign_key /\ col.target = {}) =>
        \A v \in Range(GeneratedValues) : v = NoneV \/ v \in col.target

\* C18: a call of get_population_priority in which a catalog query failed
\* does not return a list as a call without failure does
C18_CatalogFailureSurfaces ==
    pc = "priority_done" => ~catalog_failed

\* C19: a connection lost during the insertion of a batch ends populate_table
\* by its return of the counts, never by an exception
C19_LossReturnsPartialCounts ==
    connection = "lost" => pc # "populate_raised"

\* populate_table is between its call and its return
Running == pc \in {"generate", "insert", "retry"}

RECURSIVE InsertionSteps(_, _)
\* the steps the insertion of the batches from the i-th on can take
InsertionSteps(bs, i) ==
    IF i > Len(bs) THEN 0 ELSE 2 + Len(bs[i]) + InsertionSteps(bs, i + 1)

\* a bound on the steps populate_table has left before its return
StepsLeft ==
    IF pc = "generate"
    THEN 4 * (record_count - records_generated) + InsertionSteps(batches, 1) + 2
    ELSE IF pc = "insert" THEN InsertionSteps(batches, batch_index) + 1
    ELSE IF pc = "retry"
    THEN (Len(batches[batch_index]) - record_index + 1)
         + InsertionSteps(batches, batch_index + 1) + 2
    ELSE 0

IsPrefix(s, t) == Len(s) <= Len(t) /\ SubSeq(t, 1, Len(s)) = s

\* C20: a row the store rejects never makes populate_table raise and never
\* stops the run: populate_table raises only when the connection is lost;
\* while it runs a step is always possible, every step brings the return
\* nearer and keeps the rows already committed; at its return every batch
\* was attempted, every row of a retried batch included
C20_RejectionsNeverStopTheRun ==
    /\ [](pc = "populate_raised" => connection = "lost")
    /\ [](Running => ENABLED PopulatorNext)
    /\ [][Running => /\ StepsLeft' < StepsLeft
                     /\ IsPrefix(table_rows, table_rows')]_vars
    /\ [](pc = "populate_done" =>
            /\ Len(batch_results) = Len(batches)
            /\ \A i \in 1..Len(batches) :
                   batch_results[i].bulk = "rejected" =>
                       Len(batch_results[i].rows) = Len(batches[i]))

\* a run of three batches returns its counts after the store rejected the
\* first batch and, in its retry, the first row, the second row and the two
\* later batches having been committed
C20_Witness ==
    /\ pc = "populate_done"
    /\ Len(batches) = 3
    /\ batch_results[1].bulk = "rejected"
    /\ batch_results[1].rows = <<FALSE, TRUE>>
    /\ batch_results[2].bulk = "committed"
    /\ batch_results[3].bulk = "committed"
    /\ success_count = Len(table_rows)
    /\ error_count = 1

\* ------------------------------------------------ properties of the CLI flow
\* the warnings of validate_foreign_key_constraints about a foreign key whose
\* target table or target column does not exist
StructuralWarnings == {"missing_table", "missing_column"}

\* C21: the main flow never reaches populate_table for a table for which
\* validate_foreign_key_constraints returned a warning about a missing
\* target table or a missing target column
C21_MissingTargetAbortsPopulation ==
    (pc = "flow_populate" /\ Top(frames).kind = "main")
        => Range(Top(frames).warnings) \cap StructuralWarnings = {}

\* C27: whenever validate_foreign_key_constraints reported an empty related
\* table for the table of the call, get_population_priority returned a
\* non-empty list, so that priority_order[0] is defined and the flow does
\* not end on an IndexError
C27_PriorityDefinedWhenEmptyReported ==
    /\ call.empty_related_tables # <<>> => call.priority_order # <<>>
    /\ pc # "flow_crashed"

\* two tables that reference each other and are both empty
References(sch, a, b) ==
    \E i \in 1..Len(sch.fks[a]) : sch.fks[a][i].foreign_table = b

CycleBothEmpty ==
    /\ schema # NoSchema
    /\ References(schema, "orders", "customers")
    /\ References(schema, "customers", "orders")
    /\ schema.empty["orders"]
    /\ schema.empty["customers"]

\* with such a cycle no sequence of answers reaches populate_table: every
\* call of analyze_and_confirm finds the other table empty
CycleNeverPopulated == CycleBothEmpty => pc # "flow_populate"

\* the user accepts what the flow proposes: to populate the priority table
\* first
Accept ==
    \/ MainSwitchPrompt(TRUE, TRUE)
    \/ SwitchToPriorityTable(TRUE)
    \/ AacSwitchPrompt(TRUE)

\* the user answers yes to "continuar con la inserción"
Continue == AacContinuePrompt("continue", "orders")

\* the user answers yes to the final confirmation of main
Confirm == FlowReturn(TRUE, TRUE) /\ pc' = "flow_populate"

\* a step of a user who stays in the program: any answer but the ones that
\* leave it
Stay ==
    \/ \E t \in FlowTables : MainSelectTable(t)
    \/ \E answer \in BOOLEAN : MainSwitchPrompt(answer, TRUE)
    \/ \E proceed \in BOOLEAN : SwitchToPriorityTable(proceed)
    \/ AnalyzeAndConfirm
    \/ \E answer \in BOOLEAN : AacSwitchPrompt(answer)
    \/ \E choice \in ContinueChoices \ {"exit"}, new_table \in FlowTables :
            AacContinuePrompt(choice, new_table)
    \/ \E confirmed \in BOOLEAN : FlowReturn(confirmed, TRUE)
    \/ \E stored \in BOOLEAN : FlowPopulate(stored, TRUE)

\* the user keeps trying: every question is answered, and the answers that
\* go on towards populate_table are given again and again when their
\* questions keep coming back
FlowFairness ==
    /\ WF_vars(Stay)
    /\ SF_vars(Accept)
    /\ SF_vars(Continue)
    /\ SF_vars(Confirm)

FairFlow == FlowSpec /\ FlowFairness

\* the program has ended: the user left, an exception reached main, or the
\* transaction of the session is aborted
FlowEnded == pc \in {"flow_exited", "flow_crashed", "flow_aborted"}

\* C26: a dependency cycle does not block population: with two tables that
\* reference each other and are both empty, a user who stays in the program
\* and keeps trying every answer reaches populate_table
C26_CycleDoesNotBlockPopulation ==
    CycleBothEmpty ~> (pc = "flow_populate" \/ FlowEnded)

\* the successes populate_table and the running retry have counted
Counted == success_count + (IF pc = "retry" THEN individual_success ELSE 0)

\* C24: after a rejected bulk insert no row written by the bulk attempt is
\* left when the row-level retry starts and while it runs, and every step of
\* the insertion stores exactly as many rows as it counts successes, so that
\* at the end of a batch the stored records of the batch are as many as its
\* success count and none is stored twice
C24_RetryStartsFromRolledBackBatch ==
    /\ [](pc = "retry" => uncommitted = <<>>)
    /\ [][(pc \in {"insert", "retry"} /\ pc' \in {"insert", "retry", "populate_done"})
            => Len(table_rows') - Len(table_rows) = Counted' - Counted]_vars

\* a retry whose bulk attempt had written rows before it was rejected and
\* that has stored a row of the batch again
C24_Witness ==
    /\ pc = "retry"
    /\ WrittenBeforeRejection(col, batches[batch_index],
                              SubSeq(table_rows, 1, Len(table_rows) - individual_success)) # <<>>
    /\ individual_success > 0

\* C22: work on batch k+1, the generation of its records included, does
\* not start until the insertion outcome of batch k is known: a batch is
\* generated only when every batch before it has its outcome
C22_GenerationWaitsForOutcome ==
    Len(batches) <= Len(batch_results) + 1

\* the insertion is working on the batch at batch_index
Inserting == pc \in {"insert", "retry"} /\ batch_index <= Len(batches)

\* C22, amended: every batch is generated before the first insertion; the
\* insertion of a batch starts only when the outcome of every batch before
\* it is known, and the batches are inserted in the order of their
\* generation: the rows a step stores are records of the batch at
\* batch_index, which only moves on to the next batch
C22_InsertionInGenerationOrder ==
    /\ [](pc = "generate" => batch_results = <<>> /\ batch_index = 0)
    /\ [](pc \in {"insert", "retry"}
            => /\ records_generated >= record_count
               /\ Len(batch_results) = batch_index - 1)
    /\ [][Inserting /\ pc' \in {"insert", "retry"}
            => /\ batch_index' \in {batch_index, batch_index + 1}
               /\ batches' = batches
               /\ \/ table_rows' = table_rows
                  \/ table_rows' = table_rows \o batches[batch_index]
                  \/ \E r \in 1..Len(batches[batch_index]) :
                        table_rows' = Append(table_rows, batches[batch_index][r])]_vars

\* the second of several batches is being retried row by row after the
\* first one was stored
C22_Witness ==
    /\ pc = "retry"
    /\ batch_index = 2
    /\ Len(batches) > 2
    /\ batch_results[1].success > 0
    /\ individual_success > 0

\* the outcome _insert_batch returned for the i-th batch is one of the two
\* terminal states: Committed by the bulk attempt with all its rows and no
\* error and without a row-level retry, or PartiallyCommitted by a row-level
\* retry that tried every row
Terminal(i) ==
    LET r == batch_results[i]
        batch == batches[i]
    IN \/ /\ r.bulk = "committed"
          /\ r.success = Len(batch)
          /\ r.errors = 0
          /\ r.rows = <<>>
       \/ /\ r.bulk = "rejected"
          /\ Len(r.rows) = Len(batch)
          /\ r.success = Count(r.rows, TRUE)
          /\ r.success + r.errors = Len(batch)

\* the states a batch goes through as long as the connection is not lost:
\* one bulk attempt for each batch in turn, a row-level retry only of a
\* batch that has no outcome yet, a terminal state for every batch at the
\* return
BatchStateMachine ==
    /\ [](\A i \in 1..Len(batch_results) : Terminal(i))
    /\ [](pc \in {"insert", "retry"} => Len(batch_results) = batch_index - 1)
    /\ [](pc = "populate_done" => Len(batch_results) = Len(batches))
    /\ [][Inserting /\ pc = "insert" /\ pc' \in {"insert", "retry"}
            => \/ pc' = "retry" /\ batch_index' = batch_index
                                /\ batch_results' = batch_results
               \/ pc' = "insert" /\ Len(batch_results') = batch_index]_vars

\* C23: every batch goes through Generated, BulkAttempted, then Committed
\* or RolledBackThenRowRetried and always ends in a terminal state: a batch
\* whose insertion has begun is never abandoned
C23_EveryBatchEndsTerminal ==
    /\ BatchStateMachine
    /\ [][Inserting => pc' # "populate_raised"]_vars

\* ------------------------------------------ properties of name inference
\* the words _generate_from_column_name looks for in the name of a column for
\* each semantic category; it has no test for a quantity, a boolean flag, a
\* URL or a category
CategoryWords(cat) ==
    CASE cat = "name" -> {"name", "nombre"}
      [] cat = "email" -> {"email"}
      [] cat = "phone" -> {"phone", "tel", "telefono"}
      [] cat = "address" -> {"address", "direccion"}
      [] cat = "date" -> {"date", "fecha"}
      [] cat = "city" -> {"city", "ciudad"}
      [] cat = "province" -> {"province", "provincia"}
      [] cat = "country" -> {"country", "pais"}
      [] cat = "company" -> {"company", "empresa"}
      [] cat = "product" -> {"product", "producto"}
      [] cat = "description" -> {"description", "descripcion"}
      [] cat = "code" -> {"code", "codigo"}
      [] cat = "price" -> {"price", "precio", "cost", "costo"}
      [] cat = "status" -> {"status", "estado"}
      [] OTHER -> {}

\* the values the synthesizer of a category can return
Synthesizer(cat, name, ds) ==
    CASE cat = "name" -> GeneratePersonalName(name, ds)
      [] cat = "email" -> GenerateEmail
      [] cat = "phone" -> GeneratePhone
      [] cat = "address" -> GenerateAddress
      [] cat = "date" -> GenerateDate
      [] cat \in {"city", "province", "country", "description", "status"} ->
             GetRandomValue(ds)
      [] cat = "company" -> GetRandomCompany
      [] cat = "product" -> GetRandomProduct
      [] cat = "code" -> GenerateCode
      [] cat = "price" -> GenerateRealisticPrice
      [] OTHER -> {NoneV}

RECURSIVE FirstMatch(_, _)
\* the first category of the order that matches the name
FirstMatch(categories, name) ==
    IF categories = <<>> THEN "none"
    ELSE IF NameHas(name, CategoryWords(Head(categories))) THEN Head(categories)
    ELSE FirstMatch(Tail(categories), name)

\* the order of the categories as stated
StatedOrder ==
    <<"name", "email", "phone", "address", "city", "company", "product", "description",
      "code", "price", "quantity", "status", "boolean", "url", "category", "date">>

\* the order of the tests of _generate_from_column_name
TestedOrder ==
    <<"name", "email", "phone", "address", "date", "city", "province", "country",
      "company", "product", "description", "code", "price", "status">>

\* generate_value has returned what the name of the column made it
\* synthesize: no hint of the table context, no uniqueness
NameInferred ==
    /\ pc = "gv_done"
    /\ gv_args.hint = "nohint"
    /\ ~gv_args.is_unique

\* the value is one the synthesizer of the first matching category of the
\* order returns, when that synthesizer always returns a value
InferredInOrder(categories) ==
    LET cat == FirstMatch(categories, gv_args.column_name)
        synthesized == Synthesizer(cat, gv_args.column_name, master_dataset)
    IN (cat # "none" /\ NoneV \notin synthesized) => gv_result \in synthesized

\* C25: name-pattern inference checks the categories in the order personal
\* name, email, phone, address, city, company, product, description, code,
\* price, quantity, status, boolean flag, URL, category, date and the first
\* match wins: a name matching both 'code' and 'date' is synthesized as a code
C25_FirstMatchInStatedOrder == NameInferred => InferredInOrder(StatedOrder)

\* C25, amended: the order is personal name, email, phone, address, date,
\* city, province, country, company, product, description, code, price,
\* status and the first match wins: a name matching both 'code' and 'date'
\* is synthesized as a date
C25_FirstMatchInTestedOrder ==
    NameInferred =>
        /\ InferredInOrder(TestedOrder)
        /\ gv_args.column_name = "code_date" => gv_result \in GenerateDate

C25_Witness ==
    /\ NameInferred
    /\ gv_args.column_name = "code_date"
    /\ FirstMatch(StatedOrder, gv_args.column_name) = "code"
    /\ FirstMatch(TestedOrder, gv_args.column_name) = "date"
    /\ gv_result \in GenerateDate

\* C28: the populator generates null only for nullable columns: no record
\* generated for a column whose is_nullable is 'NO' holds None, whatever the
\* strategy of the column
C28_NullOnlyForNullableColumns ==
    (pc \in {"generate", "insert", "retry", "populate_done"} /\ col.is_nullable = "NO")
        => NoneV \notin Range(GeneratedValues)

\* ------------------------------------------------ properties of uniqueness
\* a step in which generate_value, and with it _ensure_uniqueness, is called
\* and returns or raises
GenerateValueStep ==
    \/ pc = "idle" /\ pc' = "gv_done"
    \/ pc = "guv_loop" /\ (pc' = "guv_loop" \/ guv_result' = <<"raised", <<>>>>)

\* the values generate_value hands to _ensure_uniqueness
Candidates(a) ==
    GenerateValue([a EXCEPT !.is_unique = FALSE], master_dataset, {},
                  sequence_counters[a.column_name])

RECURSIVE CollidedThroughout(_, _, _, _)
\* the values the loop can hold when every one of its MaxAttempts passes
\* has collided with the tracker
CollidedThroughout(cur, original_value, tracked, attempts) ==
    LET colliding == {x \in cur : PyIn(x, tracked)}
    IN IF attempts >= MaxAttempts \/ colliding = {} THEN colliding
       ELSE CollidedThroughout(UNION {Perturb(x, original_value) : x \in colliding},
                               original_value, tracked, attempts + 1)

\* C29: _ensure_uniqueness with is_unique set: after the call the returned
\* value is in the tracker of the column, and it was not in it before the
\* call unless all 100 perturbation attempts collided; with is_unique unset
\* the value is returned as it came and the tracker is left unchanged
C29_EnsureUniquenessContract ==
    [][GenerateValueStep =>
        LET a == gv_args'
            r == gv_result'
            before == unique_value_tracker[a.column_name]
            after == unique_value_tracker'[a.column_name]
        IN IF a.is_unique
           THEN r # TypeErrorV =>
                    /\ PyIn(r, after)
                    /\ PyIn(r, before) =>
                           \E x \in Candidates(a) :
                               r \in CollidedThroughout({x}, x, before, 0)
           ELSE /\ unique_value_tracker' = unique_value_tracker
                /\ r \in Candidates(a)]_vars

\* a unique value that collided with the tracker and was perturbed
C29_Witness ==
    /\ pc = "gv_done"
    /\ gv_args.is_unique
    /\ gv_result.k = "str"
    /\ "_" \in Range(gv_result.s)
    /\ gv_result \in unique_value_tracker[gv_args.column_name]
    /\ Cardinality(unique_value_tracker[gv_args.column_name]) > 1

\* ---------------------------------------- populator: termination
\* the passes the generation loop still has to make when each pass generates
\* a record or more
Remaining == record_count - records_generated

\* C30: populate_table terminates for every record count and every batch size
\* the configuration can supply, 0 and negative ones included: every pass of
\* the generation loop brings records_generated closer to the record count
C30_EveryPassAdvances ==
    [][pc = "generate" /\ pc' = "generate" => Remaining' < Remaining]_vars

====
